---- MODULE Spec2Model ----
(***************************************************************************)
(* Location Resolver (dist/tools/lookup.js), Ranking Engine                 *)
(* (tools/rankings), Store Manager (db) and tool handler (index) of the     *)
(* census ACS server.                                                       *)
(* Strings are sequences of one-character strings, so that trimming,        *)
(* prefixes, LIKE patterns, regular expressions and lengths are computed    *)
(* as the code and the SQL it issues compute them.  The geographic catalog  *)
(* (json_db.tiger_geometries) is a read-only set of rows.  A query whose    *)
(* ORDER BY leaves rows tied may return the tied rows in any order.         *)
(***************************************************************************)
EXTENDS Integers, Sequences, FiniteSets, TLC

VARIABLES
    catalog,    \* the rows of json_db.tiger_geometries
    acs,        \* the rows of pct_db.acs_with_percentiles
    db,         \* the module variable db: the number of a handle, 0 for null
    handles,    \* the store handles created so far, in order of creation
    tasks,      \* the calls of getDatabase, query and closeDatabase in progress
    request,    \* the tool call the handler is working on
    response,   \* what the tool handler answered
    pc,         \* where the running operation stands
    call,       \* the running operation and its arguments
    fetched,    \* the rows the operation's first query returned
    queries,    \* the queries the running operation has issued, in order
    result,     \* what the operation returned
    prev        \* what the preceding resolveLocation with the same arguments returned

vars == <<catalog, acs, db, handles, tasks, request, response, pc, call, fetched, queries, result, prev>>

(***************************************************************************)
(* Bounds of the model.                                                     *)
(***************************************************************************)
\* largest number of rows of a catalog
MaxAreas == 3
\* largest LIMIT a caller passes
MaxLimit == 2

(***************************************************************************)
(* Characters and strings.                                                  *)
(***************************************************************************)
Digits == <<"0", "1", "2", "3", "4", "5", "6", "7", "8", "9">>
UpperCase == <<"A", "B", "C", "D", "E", "F", "G", "H", "I", "J", "K", "L", "M",
               "N", "O", "P", "Q", "R", "S", "T", "U", "V", "W", "X", "Y", "Z">>
LowerCase == <<"a", "b", "c", "d", "e", "f", "g", "h", "i", "j", "k", "l", "m",
               "n", "o", "p", "q", "r", "s", "t", "u", "v", "w", "x", "y", "z">>

\* the literal that separates the group from the FIPS suffix of a key
US == <<"U", "S">>

Range(s) == {s[i] : i \in 1..Len(s)}
IndexOf(c, s) == CHOOSE i \in 1..Len(s) : s[i] = c

\* /\d/ : an ASCII digit
IsDigit(c) == c \in Range(Digits)

\* the character's code unit, which is what ORDER BY name compares
CharCode(c) ==
    IF c \in Range(Digits) THEN 47 + IndexOf(c, Digits)
    ELSE IF c \in Range(UpperCase) THEN 64 + IndexOf(c, UpperCase)
    ELSE IF c \in Range(LowerCase) THEN 96 + IndexOf(c, LowerCase)
    ELSE 32

\* case folding of ILIKE
LowerChar(c) == IF c \in Range(UpperCase) THEN LowerCase[IndexOf(c, UpperCase)] ELSE c
ToLower(s) == [i \in 1..Len(s) |-> LowerChar(s[i])]

\* String.prototype.trim
RECURSIVE TrimLeft(_)
TrimLeft(s) == IF s # <<>> /\ s[1] = " " THEN TrimLeft(Tail(s)) ELSE s
RECURSIVE TrimRight(_)
TrimRight(s) ==
    IF s # <<>> /\ s[Len(s)] = " " THEN TrimRight(SubSeq(s, 1, Len(s) - 1)) ELSE s
Trim(s) == TrimRight(TrimLeft(s))

\* String.prototype.includes
Includes(s, sub) ==
    \E i \in 1..(Len(s) - Len(sub) + 1) : SubSeq(s, i, i + Len(sub) - 1) = sub

\* the whole FIPS suffix of the parent instead of its last two characters
SliceFipsSuffix(s) ==
    IF Includes(s, US)
    THEN SubSeq(s, (CHOOSE i \in 1..Len(s) : SubSeq(s, i, i + 1) = US) + 2, Len(s))
    ELSE s

\* String.prototype.slice(-2)
SliceLast2(s) == IF Len(s) <= 2 THEN s ELSE SubSeq(s, Len(s) - 1, Len(s))

\* SQL LIKE: % matches any run of characters, _ matches one character
RECURSIVE Like(_, _)
Like(s, pat) ==
    IF pat = <<>> THEN s = <<>>
    ELSE IF pat[1] = "%"
         THEN \E k \in 0..Len(s) : Like(SubSeq(s, k + 1, Len(s)), Tail(pat))
         ELSE /\ s # <<>>
              /\ (pat[1] = "_" \/ pat[1] = s[1])
              /\ Like(Tail(s), Tail(pat))

\* SQL ILIKE
ILike(s, pat) == Like(ToLower(s), ToLower(pat))

\* lexicographic order of sequences of integers (a shorter prefix sorts first)
RECURSIVE LexLess(_, _)
LexLess(a, b) ==
    IF b = <<>> THEN FALSE
    ELSE IF a = <<>> THEN TRUE
    ELSE IF a[1] # b[1] THEN a[1] < b[1]
    ELSE LexLess(Tail(a), Tail(b))

Codes(s) == [i \in 1..Len(s) |-> CharCode(s[i])]

Min(a, b) == IF a < b THEN a ELSE b

(***************************************************************************)
(* Summary levels (types.js) and the structure of a geographic key.         *)
(***************************************************************************)
SUMMARY_LEVELS ==
    { <<<<"0", "4", "0">>, <<"s", "t", "a", "t", "e">>>>, <<<<"0", "5", "0">>, <<"c", "o", "u", "n", "t", "y">>>>, <<<<"1", "4", "0">>, <<"t", "r", "a", "c", "t">>>>,
      <<<<"1", "5", "0">>, <<"b", "l", "o", "c", "k", "_", "g", "r", "o", "u", "p">>>>, <<<<"3", "1", "0">>, <<"m", "e", "t", "r", "o">>>>, <<<<"8", "6", "0">>, <<"z", "i", "p">>>> }

SUMMARY_LEVEL_NAMES ==
    { <<<<"s", "t", "a", "t", "e">>, <<"0", "4", "0">>>>, <<<<"c", "o", "u", "n", "t", "y">>, <<"0", "5", "0">>>>, <<<<"t", "r", "a", "c", "t">>, <<"1", "4", "0">>>>,
      <<<<"b", "l", "o", "c", "k", "_", "g", "r", "o", "u", "p">>, <<"1", "5", "0">>>>, <<<<"m", "e", "t", "r", "o">>, <<"3", "1", "0">>>>, <<<<"z", "i", "p">>, <<"8", "6", "0">>>> }

\* table[key], undefined (here the empty string, equally falsy) when absent
Lookup(table, key) ==
    IF \E e \in table : e[1] = key THEN (CHOOSE e \in table : e[1] = key)[2] ELSE <<>>

\* a JavaScript string used as a condition: undefined and "" are both false
Truthy(s) == s # <<>>

\* a || b
OrElse(a, b) == IF Truthy(a) THEN a ELSE b

\* SUMMARY_LEVEL_NAMES[summaryLevel] || summaryLevel
LevelCodeOf(summaryLevel) == OrElse(Lookup(SUMMARY_LEVEL_NAMES, summaryLevel), summaryLevel)

\* <level:3><group:4>US<fips-suffix>
Key(level, group, suffix) == level \o group \o US \o suffix

\* geoId.substring(0, 3)
\* geoId.substring(0, 2): a level code cut one character short
getSummaryLevelTwoChars(geoId) == SubSeq(geoId, 1, Min(2, Len(geoId)))

getSummaryLevel(geoId) == SubSeq(geoId, 1, Min(3, Len(geoId)))

\* characters 4 to 7 of a key: its population-group segment
GroupOf(geoId) == SubSeq(geoId, 4, Min(7, Len(geoId)))

\* the text after the first literal US of a key
RECURSIVE SuffixOf(_)
SuffixOf(geoId) ==
    IF Len(geoId) < 2 THEN <<>>
    ELSE IF SubSeq(geoId, 1, 2) = US THEN SubSeq(geoId, 3, Len(geoId))
    ELSE SuffixOf(Tail(geoId))

StartsWith(s, p) == Len(p) <= Len(s) /\ SubSeq(s, 1, Len(p)) = p

(***************************************************************************)
(* The geographic catalog: rows of json_db.tiger_geometries.  geom is the   *)
(* set of grid points <<x, y>> = <<longitude, latitude>> inside the area.   *)
(***************************************************************************)
Area(geoId, name, geom) == [geo_id |-> geoId, name |-> name, geom |-> geom]

StateCA == Area(Key(<<"0", "4", "0">>, <<"0", "0", "0", "0">>, <<"0", "6">>), <<"O", "r", "a">>,
                {<<0, 0>>, <<1, 0>>, <<0, 1>>, <<1, 1>>})
StateCAWhite == Area(Key(<<"0", "4", "0">>, <<"0", "0", "A", "0">>, <<"0", "6">>), <<"O", "r", "a">>,
                {<<0, 0>>, <<1, 0>>, <<0, 1>>, <<1, 1>>})
CountyCA == Area(Key(<<"0", "5", "0">>, <<"0", "0", "0", "0">>, <<"0", "6", "0", "3", "7">>), <<"O", "r", "a", "n", "g", "e">>, {<<0, 0>>, <<1, 0>>})
CountyTX == Area(Key(<<"0", "5", "0">>, <<"0", "0", "0", "0">>, <<"4", "8", "0", "0", "1">>), <<"M", "o", "r", "g", "a", "n">>, {<<2, 0>>, <<2, 1>>})
MetroCA == Area(Key(<<"3", "1", "0">>, <<"0", "0", "0", "0">>, <<"3", "1", "0", "8", "0">>), <<"O", "r", "a", "n", "g", "e", " ", "M", "e", "t", "r", "o">>, {<<0, 0>>, <<1, 0>>})
ZipCA == Area(Key(<<"8", "6", "0">>, <<"Z", "2", "0", "0">>, <<"9", "0", "2", "1", "0">>), <<"U", "n", "k", "n", "o", "w", "n">>, {<<0, 0>>})
TractCA == Area(Key(<<"1", "4", "0">>, <<"0", "0", "0", "0">>, <<"0", "6", "0", "3", "7", "7", "0", "1", "0", "0", "0">>), <<"T", "r", "a", "c", "t", " ", "9", "0", "2", "1", "0">>, {<<0, 0>>})
BlockGroupCA == Area(Key(<<"1", "5", "0">>, <<"0", "0", "0", "0">>, <<"0", "6", "0", "3", "7", "7", "0", "1", "0", "0", "0", "1">>), <<"M", "o", "r", "g", "a", "n", " ", "1">>, {<<0, 0>>})
PlaceCA == Area(Key(<<"1", "6", "0">>, <<"0", "0", "0", "0">>, <<"0", "6", "4", "4", "0", "0", "0">>), <<"U", "n", "i", "o", "n">>, {<<1, 0>>})

Universe ==
    { StateCA, StateCAWhite, CountyCA, CountyTX, MetroCA, ZipCA, TractCA,
      BlockGroupCA, PlaceCA }

Catalogs == {c \in SUBSET Universe : Cardinality(c) <= MaxAreas}

(***************************************************************************)
(* Census data of the areas: rows of json_db.geo_lookup and of              *)
(* pct_db.table_metadata.  labels_data is stored as JSON text or as an      *)
(* object; v stands for its content.                                        *)
(***************************************************************************)
Labels(isText, v) == [text |-> isText, v |-> v]

\* LIMIT 100 of the data query
DataLimit == 100

\* the decimal numeral of i in three digits
Numeral(i) ==
    <<Digits[((i \div 100) % 10) + 1], Digits[((i \div 10) % 10) + 1], Digits[(i % 10) + 1]>>

\* the row of table T<i> for a county that has data in many tables
ManyTablesRow(i) ==
    [geo_id |-> CountyTX.geo_id, title |-> <<"T">> \o Numeral(i) \o <<" ", "x">>,
     universe |-> "people", labels_data |-> Labels(FALSE, i)]

\* one state's and one county's row, two tables of a tract, and a county
\* with one row more than the data query's LIMIT
GeoLookup ==
    { [geo_id |-> StateCA.geo_id, title |-> <<"B", "0", "1", " ", "A", "g", "e">>, universe |-> "people",
       labels_data |-> Labels(TRUE, 1)],
      [geo_id |-> CountyCA.geo_id, title |-> <<"B", "0", "1", " ", "A", "g", "e">>, universe |-> "people",
       labels_data |-> Labels(FALSE, 2)],
      [geo_id |-> TractCA.geo_id, title |-> <<"B", "0", "1", " ", "A", "g", "e">>, universe |-> "people",
       labels_data |-> Labels(TRUE, 3)],
      [geo_id |-> TractCA.geo_id, title |-> <<"B", "0", "2", " ", "R", "a", "c", "e">>, universe |-> "people",
       labels_data |-> Labels(FALSE, 4)],
      [geo_id |-> CountyTX.geo_id, title |-> <<"B", "0", "1", " ", "A", "g", "e">>, universe |-> "people",
       labels_data |-> Labels(FALSE, 5)] }
    \cup { ManyTablesRow(i) : i \in 1..DataLimit }

TableMetadata ==
    { [table_id |-> <<"B", "0", "1">>, unique_id |-> "A",
       title |-> <<"B", "0", "1", " ", "A", "g", "e">>, label |-> <<"T", "o", "t", "a", "l">>],
      [table_id |-> <<"B", "0", "2">>, unique_id |-> "B",
       title |-> <<"B", "0", "2", " ", "R", "a", "c", "e">>, label |-> <<"T", "o", "t", "a", "l">>] }

(***************************************************************************)
(* Observations: rows of pct_db.acs_with_percentiles.  A percentile is a    *)
(* number of steps of 1/PctScale, so 0 stands for 0.0 and PctScale for 1.0. *)
(* An area has at most one observation of a metric.                         *)
(***************************************************************************)
\* the percentile scale
PctScale == 2
\* largest number of observations missing from the table
MaxMissing == 1

Observation(uid, geoId, estimate, percentile) ==
    [uid |-> uid, geo_id |-> geoId, estimate |-> estimate,
     summary_level |-> getSummaryLevel(geoId),
     state_fips |-> SubSeq(SuffixOf(geoId), 1, Min(2, Len(SuffixOf(geoId)))),
     national_percentile |-> percentile]

\* a state the observations know and the geographic catalog does not
StateTXKey == Key(<<"0", "4", "0">>, <<"0", "0", "0", "0">>, <<"4", "8">>)

\* metrics A and B (numerators, described in table_metadata), C and D
\* (denominators): a state, its population-group variant, a county and the
\* state without catalog row; C is zero in that state
Observations ==
    { Observation("A", StateCA.geo_id, 5000, 1),
      Observation("A", StateCAWhite.geo_id, 2000, 0),
      Observation("A", CountyCA.geo_id, 9000, 0),
      Observation("A", StateTXKey, 30000, PctScale),
      Observation("B", StateCA.geo_id, 2500, 1),
      Observation("B", CountyCA.geo_id, 4000, PctScale),
      Observation("C", StateCA.geo_id, 20000, 1),
      Observation("C", StateCAWhite.geo_id, 10000, 1),
      Observation("C", CountyCA.geo_id, 12000, 0),
      Observation("C", StateTXKey, 0, 0),
      Observation("D", StateCA.geo_id, 10000, 1),
      Observation("D", CountyCA.geo_id, 3, 0) }

\* the table with up to MaxMissing observations not collected
ObservationTables ==
    { Observations \ missing :
        missing \in {m \in SUBSET Observations : Cardinality(m) <= MaxMissing} }

\* the catalogs the rankings run against
RankCatalogs == { {StateCA, StateCAWhite, CountyCA}, {CountyCA} }

(***************************************************************************)
(* The Store Manager (db): the module variable db, the handles created, and *)
(* the values a query returns.  A value of a result is null, undefined, a   *)
(* bigint, a number, a string, an array or an object; every value is a      *)
(* record of one shape, keys and items being the entries of an object in    *)
(* order and items alone the elements of an array.                          *)
(***************************************************************************)
JsValue(t, n, s, keys, items) == [t |-> t, n |-> n, s |-> s, keys |-> keys, items |-> items]
JsNull == JsValue("null", 0, "", <<>>, <<>>)
JsUndefined == JsValue("undefined", 0, "", <<>>, <<>>)
JsBigInt(n) == JsValue("bigint", n, "", <<>>, <<>>)
JsNumber(n) == JsValue("number", n, "", <<>>, <<>>)
JsString(s) == JsValue("string", 0, s, <<>>, <<>>)
JsArray(items) == JsValue("array", 0, "", <<>>, items)
JsObject(keys, items) == JsValue("object", 0, "", keys, items)

\* the conversion that leaves a bigint inside an object as it is
RECURSIVE convertBigIntsInArrays(_)
convertBigIntsInArrays(obj) ==
    IF obj.t = "bigint" THEN JsNumber(obj.n)
    ELSE IF obj.t = "array"
    THEN JsArray([i \in 1..Len(obj.items) |-> convertBigIntsInArrays(obj.items[i])])
    ELSE obj

\* convertBigInts(obj): null and undefined as they are, Number(obj) of a
\* bigint, obj.map(convertBigInts) of an array, a new object with the
\* converted value under each key of an object, any other value as it is
RECURSIVE convertBigInts(_)
convertBigInts(obj) ==
    IF obj.t = "null" \/ obj.t = "undefined" THEN obj
    ELSE IF obj.t = "bigint" THEN JsNumber(obj.n)
    ELSE IF obj.t = "array"
    THEN JsArray([i \in 1..Len(obj.items) |-> convertBigInts(obj.items[i])])
    ELSE IF obj.t = "object"
    THEN JsObject(obj.keys, [i \in 1..Len(obj.items) |-> convertBigInts(obj.items[i])])
    ELSE obj

\* rows database.all may resolve to: counts and sums come as bigint, a JSON
\* column as a string, a missing name as null
RawResults ==
    { JsArray(<<>>),
      JsArray(<<JsObject(<<"cnt">>, <<JsBigInt(3)>>)>>),
      JsArray(<<JsObject(<<"geo_id", "name", "value">>,
                         <<JsString("0400000US06"), JsNull, JsBigInt(7500)>>),
                JsObject(<<"geo_id", "name", "value">>,
                         <<JsString("0500000US06037"), JsString("Orange"), JsNumber(25)>>)>>),
      JsArray(<<JsObject(<<"title", "labels_data">>,
                         <<JsString("B01 Age"),
                           JsObject(<<"total", "parts", "note">>,
                                    <<JsBigInt(5), JsArray(<<JsBigInt(2), JsNumber(3)>>),
                                      JsUndefined>>)>>)>>) }

\* the statements getDatabase runs on a new handle, in order
ConfigSteps == <<"memory_limit", "threads", "json_db", "pct_db", "spatial", "fts">>

\* the statements that attach a catalog
AttachSteps == {"json_db", "pct_db"}

NewHandle == [applied |-> <<>>, closed |-> FALSE]

\* a handle on which getDatabase has run through
ConfiguredHandle == [applied |-> ConfigSteps, closed |-> FALSE]

\* the callers of the exported functions that may run at a time
Callers == {"a", "b"}

NoOutcome == [kind |-> "none", value |-> JsNull]

Task(taskPc, op, step, target, database, queryState, timer, outcome) ==
    [pc |-> taskPc, op |-> op, step |-> step, target |-> target,
     database |-> database, query |-> queryState, timer |-> timer, outcome |-> outcome]

IdleTask == Task("idle", "none", 0, 0, 0, "none", "none", NoOutcome)

NoRequest == [name |-> "none"]

NoResponse == [kind |-> "none"]

(***************************************************************************)
(* Rows in the order of an ORDER BY ... LIMIT n.  key[r] is the sort key of *)
(* row r, a sequence of integers; rows with equal keys come in any order.   *)
(***************************************************************************)
RECURSIVE OrderedRows(_, _, _)
OrderedRows(rows, key, n) ==
    IF n <= 0 \/ rows = {} THEN {<<>>}
    ELSE LET first == {r \in rows : \A o \in rows : ~LexLess(key[o], key[r])}
         IN  UNION { { <<r>> \o rest : rest \in OrderedRows(rows \ {r}, key, n - 1) }
                     : r \in first }

(***************************************************************************)
(* The queries of resolveLocation.                                          *)
(***************************************************************************)
\* WHERE geo_id = ?
ByKey(rows, geoId) == {a \in rows : a.geo_id = geoId}

\* /^\d/.test(trimmed) && trimmed.includes('US')
LooksLikeGeoId(trimmed) ==
    /\ trimmed # <<>>
    /\ IsDigit(trimmed[1])
    /\ Includes(trimmed, US)

\* /^\d{5}$/.test(trimmed)
IsZip(trimmed) == Len(trimmed) = 5 /\ \A i \in 1..5 : IsDigit(trimmed[i])

\* `860Z200US${trimmed}`
ZipGeoId(trimmed) == <<"8", "6", "0", "Z", "2", "0", "0", "U", "S">> \o trimmed

\* WHERE name ILIKE '%' || ? || '%' [AND geo_id LIKE ? || '%']
ResolveWhere(a, trimmed, summaryLevel) ==
    /\ ILike(a.name, <<"%">> \o trimmed \o <<"%">>)
    /\ Truthy(summaryLevel) => Like(a.geo_id, LevelCodeOf(summaryLevel) \o <<"%">>)

\* the priority with counties ahead of states
ResolvePriorityCountiesFirst(geoId) ==
    IF Like(geoId, <<"0", "5", "0", "%">>) THEN 1
    ELSE IF Like(geoId, <<"0", "4", "0", "%">>) THEN 2
    ELSE IF Like(geoId, <<"3", "1", "0", "%">>) THEN 3
    ELSE 4

\* CASE WHEN geo_id LIKE '040%' THEN 1 ... ELSE 4 END
ResolvePriority(geoId) ==
    IF Like(geoId, <<"0", "4", "0", "%">>) THEN 1
    ELSE IF Like(geoId, <<"3", "1", "0", "%">>) THEN 2
    ELSE IF Like(geoId, <<"0", "5", "0", "%">>) THEN 3
    ELSE 4

\* ORDER BY CASE ... END, LENGTH(name)
ResolveOrderKey(a) == <<ResolvePriority(a.geo_id), Len(a.name)>>

\* the name search with its LIMIT 1: every row sequence the query may return
ResolveNameQuery(rows, trimmed, summaryLevel) ==
    LET hit == {a \in rows : ResolveWhere(a, trimmed, summaryLevel)}
    IN  OrderedRows(hit, [a \in hit |-> ResolveOrderKey(a)], 1)

(***************************************************************************)
(* The queries of searchLocations.                                          *)
(***************************************************************************)
\* WHERE name ILIKE '%' || ? || '%' [AND geo_id LIKE ? || '%'] of the row query
SearchWhere(a, trimmed, summaryLevel) ==
    /\ ILike(a.name, <<"%">> \o trimmed \o <<"%">>)
    /\ Truthy(summaryLevel) => Like(a.geo_id, LevelCodeOf(summaryLevel) \o <<"%">>)

\* the priority of resolveLocation used for the search as well
SearchPriorityFourLevels(geoId) ==
    IF Like(geoId, <<"0", "4", "0", "%">>) THEN 1
    ELSE IF Like(geoId, <<"3", "1", "0", "%">>) THEN 2
    ELSE IF Like(geoId, <<"0", "5", "0", "%">>) THEN 3
    ELSE 4

\* CASE WHEN geo_id LIKE '040%' THEN 1 ... ELSE 7 END
SearchPriority(geoId) ==
    IF Like(geoId, <<"0", "4", "0", "%">>) THEN 1
    ELSE IF Like(geoId, <<"3", "1", "0", "%">>) THEN 2
    ELSE IF Like(geoId, <<"0", "5", "0", "%">>) THEN 3
    ELSE IF Like(geoId, <<"8", "6", "0", "%">>) THEN 4
    ELSE IF Like(geoId, <<"1", "4", "0", "%">>) THEN 5
    ELSE IF Like(geoId, <<"1", "5", "0", "%">>) THEN 6
    ELSE 7

\* ORDER BY CASE ... END, LENGTH(name), name
SearchOrderKey(a) == <<SearchPriority(a.geo_id), Len(a.name)>> \o Codes(a.name)

\* the row query with its LIMIT ?
SearchRowsQuery(rows, trimmed, summaryLevel, limit) ==
    LET hit == {a \in rows : SearchWhere(a, trimmed, summaryLevel)}
    IN  OrderedRows(hit, [a \in hit |-> SearchOrderKey(a)], limit)

\* the count without the level filter
SearchCountQueryNoLevel(rows, trimmed, summaryLevel) ==
    Cardinality({a \in rows : ILike(a.name, <<"%">> \o trimmed \o <<"%">>)})

\* SELECT COUNT(*) ... WHERE name ILIKE '%' || ? || '%' [AND geo_id LIKE ? || '%']
SearchCountQuery(rows, trimmed, summaryLevel) ==
    Cardinality({a \in rows :
        /\ ILike(a.name, <<"%">> \o trimmed \o <<"%">>)
        /\ Truthy(summaryLevel) => Like(a.geo_id, LevelCodeOf(summaryLevel) \o <<"%">>)})

\* SUMMARY_LEVELS[level] || 'unknown'
LevelNameOf(level) == OrElse(Lookup(SUMMARY_LEVELS, level), <<"u", "n", "k", "n", "o", "w", "n">>)

\* results.map(row => ...)
SearchResultRow(row) ==
    [geo_id |-> row.geo_id, name |-> row.name,
     summary_level |-> getSummaryLevel(row.geo_id),
     summary_level_name |-> LevelNameOf(getSummaryLevel(row.geo_id))]

(***************************************************************************)
(* The queries of listGeographies.                                          *)
(***************************************************************************)
\* a filter that accepts every population group
CanonicalRegexAnyGroup(geoId) ==
    /\ Len(geoId) >= 3 + 4 + 2 + 1
    /\ \A i \in 1..3 : IsDigit(geoId[i])
    /\ SubSeq(geoId, 8, 9) = US
    /\ \A i \in 10..Len(geoId) : IsDigit(geoId[i])

\* geo_id ~ '^[0-9]{3}0+US[0-9]+$'
CanonicalRegex(geoId) ==
    \E z \in 1..Len(geoId) :
        /\ Len(geoId) >= 3 + z + 2 + 1
        /\ \A i \in 1..3 : IsDigit(geoId[i])
        /\ \A i \in 4..(3 + z) : geoId[i] = "0"
        /\ SubSeq(geoId, 4 + z, 5 + z) = US
        /\ \A i \in (6 + z)..Len(geoId) : IsDigit(geoId[i])

\* WHERE geo_id LIKE ? [AND geo_id LIKE '%US' || ?] AND geo_id ~ '...'
\* with params levelCode + '%' and parentGeoId.slice(-2) + '%'
ListWhere(a, levelCode, parentGeoId) ==
    /\ Like(a.geo_id, levelCode \o <<"%">>)
    /\ Truthy(parentGeoId) =>
           Like(a.geo_id, <<"%">> \o US \o SliceLast2(parentGeoId) \o <<"%">>)
    /\ CanonicalRegex(a.geo_id)

\* ORDER BY name
ListOrderKey(a) == Codes(a.name)

\* the row query with its LIMIT ?
ListRowsQuery(rows, levelCode, parentGeoId, limit) ==
    LET hit == {a \in rows : ListWhere(a, levelCode, parentGeoId)}
    IN  OrderedRows(hit, [a \in hit |-> ListOrderKey(a)], limit)

\* SELECT COUNT(*) with the same WHERE clause
ListCountQuery(rows, levelCode, parentGeoId) ==
    Cardinality({a \in rows :
        /\ Like(a.geo_id, levelCode \o <<"%">>)
        /\ Truthy(parentGeoId) =>
               Like(a.geo_id, <<"%">> \o US \o SliceLast2(parentGeoId) \o <<"%">>)
        /\ CanonicalRegex(a.geo_id)})

\* results.map(row => ({geo_id, name}))
ListResultRow(row) == [geo_id |-> row.geo_id, name |-> row.name]

(***************************************************************************)
(* The queries of lookupLocation.                                           *)
(***************************************************************************)
\* WHERE ST_Contains(geom, ST_Point(?, ?)) with params [longitude, latitude]
LookupWhere(a, latitude, longitude) == <<longitude, latitude>> \in a.geom

\* the three-level order: block group, tract, county, everything else
LookupPriorityThreeLevels(geoId) ==
    IF Like(geoId, <<"1", "5", "0", "%">>) THEN 1
    ELSE IF Like(geoId, <<"1", "4", "0", "%">>) THEN 2
    ELSE IF Like(geoId, <<"0", "5", "0", "%">>) THEN 3
    ELSE 4

\* CASE WHEN geo_id LIKE '150%' THEN 1 ... ELSE 7 END
LookupPriority(geoId) ==
    IF Like(geoId, <<"1", "5", "0", "%">>) THEN 1
    ELSE IF Like(geoId, <<"1", "4", "0", "%">>) THEN 2
    ELSE IF Like(geoId, <<"8", "6", "0", "%">>) THEN 3
    ELSE IF Like(geoId, <<"0", "5", "0", "%">>) THEN 4
    ELSE IF Like(geoId, <<"3", "1", "0", "%">>) THEN 5
    ELSE IF Like(geoId, <<"0", "4", "0", "%">>) THEN 6
    ELSE 7

\* ORDER BY CASE ... END
LookupOrderKey(a) == <<LookupPriority(a.geo_id)>>

\* the containment query, which has no LIMIT
LookupGeoQuery(rows, latitude, longitude) ==
    LET hit == {a \in rows : LookupWhere(a, latitude, longitude)}
    IN  OrderedRows(hit, [a \in hit |-> LookupOrderKey(a)], Cardinality(hit))

\* LIMIT n of a query that has no ORDER BY: any n of the rows; the order of
\* the rows, which nothing fixes, is left out and the page is a set
RECURSIVE Limited(_, _)
Limited(rows, n) ==
    IF Cardinality(rows) <= n THEN {rows}
    ELSE UNION { Limited(rows \ {r}, n) : r \in rows }

\* the data query with its table filter left out
LookupDataQueryEveryTable(geoId, tables) ==
    LET hit == { [title |-> g.title, universe |-> g.universe,
                  labels_data |-> g.labels_data]
                 : g \in {r \in GeoLookup : r.geo_id = geoId} }
    IN  Limited(hit, DataLimit)

\* SELECT DISTINCT g.title, g.universe, g.labels_data FROM json_db.geo_lookup g
\* WHERE g.geo_id = ? [AND g.title IN (SELECT DISTINCT title FROM
\* pct_db.table_metadata WHERE table_id IN (...))] LIMIT 100
LookupDataQuery(geoId, tables) ==
    LET titles == {m.title : m \in {t \in TableMetadata : t.table_id \in Range(tables)}}
        hit == { [title |-> g.title, universe |-> g.universe,
                  labels_data |-> g.labels_data]
                 : g \in {r \in GeoLookup :
                             /\ r.geo_id = geoId
                             /\ Len(tables) > 0 => r.title \in titles} }
    IN  Limited(hit, DataLimit)

\* title.split(' ')[0]
RECURSIVE FirstToken(_)
FirstToken(s) ==
    IF s = <<>> \/ s[1] = " " THEN <<>> ELSE <<s[1]>> \o FirstToken(Tail(s))

\* typeof labels_data === 'string' ? JSON.parse(labels_data) : labels_data
ParsedLabels(labels) == IF labels.text THEN Labels(FALSE, labels.v) ELSE labels

\* dataResults.map(row => ...)
LookupDataRow(row) ==
    [table_id |-> OrElse(FirstToken(row.title), <<"U", "N", "K", "N", "O", "W", "N">>),
     title |-> row.title, universe |-> row.universe,
     labels_data |-> ParsedLabels(row.labels_data)]

(***************************************************************************)
(* The queries of rankAreasByMetric.  An id argument is a string or a list  *)
(* of strings; ids holds the string alone or the elements of the list.      *)
(***************************************************************************)
NoIds == [kind |-> "undefined", ids |-> <<>>]
OneId(id) == [kind |-> "string", ids |-> <<id>>]
IdList(ids) == [kind |-> "array", ids |-> ids]

\* Array.isArray(metric_id) ? metric_id : [metric_id]
MetricIds(metric_id) == metric_id.ids

\* the value of metricIds[0] for an empty list; as a parameter it is the uid
\* of no observation
UndefinedId == "undefined"

\* metricIds[0]
FirstMetricId(metric_id) ==
    IF MetricIds(metric_id) = <<>> THEN UndefinedId ELSE MetricIds(metric_id)[1]

\* denominator_id ? (Array.isArray(denominator_id) ? denominator_id
\* : [denominator_id]) : null; a list is truthy, the empty one too
HasDenominator(denominator_id) ==
    \/ denominator_id.kind = "array"
    \/ denominator_id.kind = "string" /\ denominator_id.ids[1] # ""

DenominatorIds(denominator_id) == denominator_id.ids

\* metricIds.length > 1 || (denominatorIds && denominatorIds.length > 1)
IsCompound(metric_id, denominator_id) ==
    \/ Len(MetricIds(metric_id)) > 1
    \/ HasDenominator(denominator_id) /\ Len(DenominatorIds(denominator_id)) > 1

\* the branch of the if / else if / else
Branch(metric_id, denominator_id) ==
    IF HasDenominator(denominator_id) THEN "rate"
    ELSE IF IsCompound(metric_id, denominator_id) THEN "sum"
    ELSE "direct"

\* SELECT title, label FROM pct_db.table_metadata WHERE unique_id = ?
MetricInfoQuery(uid) == {m \in TableMetadata : m.unique_id = uid}

\* metricIds.slice(0, 3)
FirstThree(ids) == SubSeq(ids, 1, Min(3, Len(ids)))

\* the label of the response: title and label of the first metric, or its id,
\* or 'Sum of n metrics (first three ids, ... when there are more)'
MetricLabel(metric_id, denominator_id, metricInfo) ==
    IF IsCompound(metric_id, denominator_id)
    THEN [kind |-> "sum", n |-> Len(MetricIds(metric_id)),
          ids |-> FirstThree(MetricIds(metric_id)),
          more |-> Len(MetricIds(metric_id)) > 3]
    ELSE IF metricInfo # {}
    THEN LET m == CHOOSE m \in metricInfo : TRUE
         IN  [kind |-> "title", title |-> m.title, label |-> m.label]
    ELSE [kind |-> "id", id |-> FirstMetricId(metric_id)]

\* SUBSTRING(s, 4, 4)
Substring44(s) == SubSeq(s, Min(4, Len(s) + 1), Min(7, Len(s)))

\* the filter left out of the query: every key passes
NoPopulationGroupFilter(population_group, geoId) == TRUE

\* buildPopulationGroupFilter: nothing for an empty population_group, else
\* AND SUBSTRING(geo_id, 4, 4) = 'population_group'
PopulationGroupFilter(population_group, geoId) ==
    population_group = <<>> \/ Substring44(geoId) = population_group

\* the level filter of the direct branch put on the key: equality with the
\* first three characters
LevelEquals(summary_level, geoId) ==
    summary_level = <<>> \/ getSummaryLevel(geoId) = summary_level

\* summary_level ? AND geo_id LIKE 'summary_level%'
LevelLike(summary_level, geoId) ==
    summary_level = <<>> \/ Like(geoId, summary_level \o <<"%">>)

\* state_fips ? AND geo_id LIKE '%USstate_fips%'
StateLike(state_fips, geoId) ==
    state_fips = <<>> \/ Like(geoId, <<"%">> \o US \o state_fips \o <<"%">>)

\* the filters the rate and the sum branch put on the key
KeyFilters(req, geoId) ==
    /\ PopulationGroupFilter(req.population_group, geoId)
    /\ LevelLike(req.summary_level, geoId)
    /\ StateLike(req.state_fips, geoId)

\* SUM(estimate) over a set of observations
RECURSIVE SumEstimate(_)
SumEstimate(obs) ==
    IF obs = {} THEN 0
    ELSE LET o == CHOOSE o \in obs : TRUE
         IN  o.estimate + SumEstimate(obs \ {o})

\* the aggregate with an id counted as often as the request lists it
TotalsPerListedId(table, ids) ==
    LET hit == {o \in table : o.uid \in Range(ids)}
    IN  [g \in {o.geo_id : o \in hit} |->
            SumEstimate({ [i |-> i, estimate |-> o.estimate] :
                            <<i, o>> \in { p \in (1..Len(ids)) \X hit :
                                             p[2].geo_id = g /\ p[2].uid = ids[p[1]] } })]

\* SELECT geo_id, SUM(estimate) FROM pct_db.acs_with_percentiles
\* WHERE uid IN (ids) GROUP BY geo_id
Totals(table, ids) ==
    LET hit == {o \in table : o.uid \in Range(ids)}
    IN  [g \in {o.geo_id : o \in hit} |-> SumEstimate({o \in hit : o.geo_id = g})]

\* a value of a result row: a number, or the outcome of a division by zero
\* (NULL, or an infinity or NaN, as the engine is set), which is no number
Number(n) == [finite |-> TRUE, n |-> n]
Undefined == [finite |-> FALSE, n |-> 0]

\* the rate cut off after two decimals instead of rounded
TruncatedRate(num, den) ==
    IF den = 0 THEN Undefined ELSE Number((num * 10000) \div den)

\* ROUND(num_total * 100.0 / denom_total, 2), in hundredths of a percent
\* (2500 stands for 25.00); estimates are counts, so neither total is negative
RoundedRate(num, den) ==
    IF den = 0 THEN Undefined ELSE Number((2 * num * 10000 + den) \div (2 * den))

\* the key taken as the name, whatever the catalog holds
NameOfKeyOnly(rows, geoId) == geoId

\* LEFT JOIN json_db.tiger_geometries t ON geo_id = t.geo_id with
\* COALESCE(t.name, geo_id); the catalog holds at most one row of a key
NameOf(rows, geoId) ==
    IF \E a \in rows : a.geo_id = geoId
    THEN (CHOOSE a \in rows : a.geo_id = geoId).name
    ELSE geoId

\* ORDER BY value DESC | ASC: rows without a number come first or last, as
\* the engine orders NULL, infinity and NaN
ValueOrderKey(value, order, undefinedFirst) ==
    IF ~value.finite THEN <<IF undefinedFirst THEN 0 ELSE 2, 0>>
    ELSE <<1, IF order = "desc" THEN 0 - value.n ELSE value.n>>

\* numerators n JOIN denominators d ON n.geo_id = d.geo_id
\* WHERE d.denom_total >= ? and the key filters
RateMatches(table, req) ==
    LET num == Totals(table, MetricIds(req.metric_id))
        den == Totals(table, DenominatorIds(req.denominator_id))
    IN  { g \in DOMAIN num \cap DOMAIN den :
            den[g] >= req.min_population /\ KeyFilters(req, g) }

\* the row query of the rate branch
RateRowsQuery(table, rows, req, undefinedFirst) ==
    LET num == Totals(table, MetricIds(req.metric_id))
        den == Totals(table, DenominatorIds(req.denominator_id))
        hit == { [geo_id |-> g, name |-> NameOf(rows, g),
                  value |-> RoundedRate(num[g], den[g])]
                 : g \in RateMatches(table, req) }
    IN  OrderedRows(hit,
                    [r \in hit |-> ValueOrderKey(r.value, req.order, undefinedFirst)],
                    req.limit)

\* SELECT COUNT(*) over the same join and filters
RateCountQuery(table, req) == Cardinality(RateMatches(table, req))

\* rows.map(row => ({geo_id, name, value, unit: 'percent'}))
RateResultRow(row) ==
    [geo_id |-> row.geo_id, name |-> row.name, value |-> row.value, unit |-> "percent"]

\* the matches of the sum branch cut down to the percentile band
SumMatchesInBand(table, req) ==
    { o \in table :
        /\ o.uid \in Range(MetricIds(req.metric_id))
        /\ KeyFilters(req, o.geo_id)
        /\ o.national_percentile >= req.percentile_min
        /\ o.national_percentile <= req.percentile_max }

\* WHERE p.uid IN (...) and the key filters, of the sum branch
SumMatches(table, req) ==
    {o \in table : o.uid \in Range(MetricIds(req.metric_id)) /\ KeyFilters(req, o.geo_id)}

\* the row query of the sum branch: SUM(p.estimate) GROUP BY p.geo_id, t.name
SumRowsQuery(table, rows, req) ==
    LET matches == SumMatches(table, req)
        hit == { [geo_id |-> g, name |-> NameOf(rows, g),
                  value |-> Number(SumEstimate({o \in matches : o.geo_id = g}))]
                 : g \in {o.geo_id : o \in matches} }
    IN  OrderedRows(hit, [r \in hit |-> ValueOrderKey(r.value, req.order, FALSE)],
                    req.limit)

\* the count with the filters left out
SumCountQueryUnfiltered(table, req) ==
    Cardinality({o.geo_id : o \in {p \in table : p.uid \in Range(MetricIds(req.metric_id))}})

\* SELECT COUNT(DISTINCT geo_id) with the same WHERE
SumCountQuery(table, req) ==
    Cardinality({o.geo_id : o \in SumMatches(table, req)})

\* rows.map(row => ({geo_id, name, value, unit: 'count'})), without percentile
SumResultRow(row) ==
    [geo_id |-> row.geo_id, name |-> row.name, value |-> row.value, unit |-> "count"]

\* the band with its bounds left out
PercentileFilterExclusive(percentile, percentile_min, percentile_max) ==
    percentile > percentile_min /\ percentile < percentile_max

\* p.national_percentile >= ? AND p.national_percentile <= ?
PercentileFilter(percentile, percentile_min, percentile_max) ==
    percentile >= percentile_min /\ percentile <= percentile_max

\* WHERE p.uid = ? and the band, the group filter, and equality on the
\* summary_level and state_fips columns, of the direct branch
DirectMatches(table, req) ==
    { o \in table :
        /\ o.uid = FirstMetricId(req.metric_id)
        /\ PercentileFilter(o.national_percentile, req.percentile_min, req.percentile_max)
        /\ PopulationGroupFilter(req.population_group, o.geo_id)
        /\ req.summary_level # <<>> => o.summary_level = req.summary_level
        /\ req.state_fips # <<>> => o.state_fips = req.state_fips }

\* the rows ordered by their value
DirectOrderKeyByValue(row, order) ==
    <<IF order = "desc" THEN 0 - row.value.n ELSE row.value.n>>

\* ORDER BY p.national_percentile DESC | ASC
DirectOrderKey(row, order) ==
    <<IF order = "desc" THEN 0 - row.national_percentile ELSE row.national_percentile>>

\* the row query of the direct branch
DirectRowsQuery(table, rows, req) ==
    LET hit == { [geo_id |-> o.geo_id, name |-> NameOf(rows, o.geo_id),
                  value |-> Number(o.estimate),
                  national_percentile |-> o.national_percentile]
                 : o \in DirectMatches(table, req) }
    IN  OrderedRows(hit, [r \in hit |-> DirectOrderKey(r, req.order)], req.limit)

\* SELECT COUNT(*) with the same WHERE
DirectCountQuery(table, req) == Cardinality(DirectMatches(table, req))

\* the row of the direct branch mapped without its percentile
DirectResultRowBare(row) ==
    [geo_id |-> row.geo_id, name |-> row.name, value |-> row.value, unit |-> "count"]

\* rows.map(row => ({geo_id, name, value, unit: 'count', national_percentile}))
DirectResultRow(row) ==
    [geo_id |-> row.geo_id, name |-> row.name, value |-> row.value, unit |-> "count",
     national_percentile |-> row.national_percentile]

(***************************************************************************)
(* Arguments the callers pass.                                              *)
(***************************************************************************)
LocationInputs ==
    { <<"0", "4", "0", "0", "0", "0", "0", "U", "S", "0", "6">>, <<"0", "4", "0", "0", "0", "A", "0", "U", "S", "0", "6">>, <<"9", "0", "2", "1", "0">>, <<" ", "o", "r", " ">>, <<"U", "N">> }

LevelHints == { <<>>, <<"s", "t", "a", "t", "e">>, <<"0", "5", "0">> }

SearchInputs == { <<" ", "o", "r", " ">>, <<"U", "N">>, <<"z", "z">> }

ListLevels == { <<"s", "t", "a", "t", "e">>, <<"0", "5", "0">>, <<"8", "6", "0">> }

ParentInputs == { <<>>, <<"0", "4", "0", "0", "0", "0", "0", "U", "S", "0", "6">>, <<"0", "5", "0", "0", "0", "0", "0", "U", "S", "0", "1", "0", "0", "6">>, <<"0", "4", "0", "0", "0", "0", "0", "U", "S", "4", "8">> }

Limits == 0..MaxLimit

Latitudes == {0, 1}

Longitudes == {0, 1, 2}

TableFilters == { <<>>, <<<<"B", "0", "1">>>> }

\* strings handed to getSummaryLevel: keys, and strings shorter than a level code
LevelKeyInputs ==
    LocationInputs \cup
    { <<>>, <<"0">>, <<"0", "4">>, <<"0", "5", "0">>, <<"0", "5", "0", "0", "0", "0", "0", "U", "S", "0", "6", "0", "3", "7">>, <<"8", "6", "0", "Z", "2", "0", "0", "U", "S", "9", "0", "2", "1", "0">> }

\* an optional argument of a ranking request
Given(value) == [given |-> TRUE, value |-> value]
OmittedGroup == [given |-> FALSE, value |-> <<>>]
OmittedNumber == [given |-> FALSE, value |-> 0]

\* population_group = '0000' and min_population = 10000 of the destructuring
DefaultPopulationGroup == <<"0", "0", "0", "0">>
DefaultMinPopulation == 10000

MetricArgs == { OneId("A"), IdList(<<"A">>), IdList(<<"A", "B">>), IdList(<<"A", "A">>) }

DenominatorArgs ==
    { NoIds, OneId("C"), IdList(<<"C">>), IdList(<<"C", "D">>), IdList(<<"C", "C">>),
      IdList(<<>>) }

Orders == { "desc", "asc" }

PopulationGroupArgs == { OmittedGroup, Given(<<"0", "0", "A", "0">>), Given(<<>>) }

MinPopulationArgs == { OmittedNumber, Given(0) }

\* no level, a level code, and the first two characters of one
RankLevels == { <<>>, <<"0", "4", "0">>, <<"0", "4">> }

\* no state, a state code, and a state code with the first digit of a county
RankStates == { <<>>, <<"0", "6">>, <<"0", "6", "0">> }

Percentiles == 0..PctScale

RankParams(metric_id, denominator_id, order, percentile_min, percentile_max, summary_level, state_fips, population_group, min_population, limit) ==
    [metric_id |-> metric_id, denominator_id |-> denominator_id, order |-> order,
     percentile_min |-> percentile_min, percentile_max |-> percentile_max,
     summary_level |-> summary_level, state_fips |-> state_fips,
     population_group |-> population_group, min_population |-> min_population,
     limit |-> limit]

\* one request of each branch
BranchArgs ==
    { <<OneId("A"), NoIds>>, <<IdList(<<"A", "B">>), NoIds>>, <<OneId("A"), OneId("C")>> }

\* the requests sent: every shape of the ids with each order, limit and
\* min_population; each branch with each key filter; each branch with each
\* percentile band
RankRequests ==
    { RankParams(m, d, o, 0, PctScale, <<>>, <<>>, OmittedGroup, p, l) :
        m \in MetricArgs, d \in DenominatorArgs, o \in Orders,
        p \in MinPopulationArgs, l \in Limits }
    \cup
    { RankParams(b[1], b[2], "desc", 0, PctScale, s, f, g, Given(0), MaxLimit) :
        b \in BranchArgs, s \in RankLevels, f \in RankStates, g \in PopulationGroupArgs }
    \cup
    { RankParams(b[1], b[2], o, lo, hi, <<>>, <<>>, OmittedGroup, OmittedNumber, MaxLimit) :
        b \in BranchArgs, o \in Orders, lo \in Percentiles, hi \in Percentiles }

NoCall == [op |-> "none"]

NoResult == [kind |-> "none"]

Null == [kind |-> "null"]

Location(geoId, name) == [kind |-> "location", geo_id |-> geoId, name |-> name]

Query(kind, params) == [q |-> kind, params |-> params]

Init ==
    /\ catalog \in Catalogs
    /\ acs = Observations
    /\ db = 1
    /\ handles = <<ConfiguredHandle>>
    /\ tasks = [c \in Callers |-> IdleTask]
    /\ request = NoRequest
    /\ response = NoResponse
    /\ pc = "idle"
    /\ call = NoCall
    /\ fetched = <<>>
    /\ queries = <<>>
    /\ result = NoResult
    /\ prev = NoResult

(***************************************************************************)
(* resolveLocation(input, summaryLevel)                                     *)
(***************************************************************************)
CallResolveLocation(input, summaryLevel) ==
    /\ pc = "idle"
    /\ pc' = "resolve_key"
    /\ call' = [op |-> "resolveLocation", input |-> input, summaryLevel |-> summaryLevel]
    /\ UNCHANGED <<catalog, acs, db, handles, tasks, request, response, fetched, queries, result, prev>>

\* a second call with the arguments of the call that has just returned
RepeatResolveLocation ==
    /\ pc = "done"
    /\ call.op = "resolveLocation"
    /\ prev = NoResult
    /\ pc' = "resolve_key"
    /\ prev' = result
    /\ result' = NoResult
    /\ queries' = <<>>
    /\ UNCHANGED <<catalog, acs, db, handles, tasks, request, response, call, fetched>>

\* step 1 without its return: a hit is stored and the later steps still run
ResolveByKeyNoReturn ==
    /\ pc = "resolve_key"
    /\ LET trimmed == Trim(call.input)
       IN  IF LooksLikeGeoId(trimmed)
           THEN LET hit == ByKey(catalog, trimmed)
                IN  /\ queries' = Append(queries, Query("by_key", <<trimmed>>))
                    /\ IF hit # {}
                       THEN \E a \in hit : result' = Location(a.geo_id, a.name)
                       ELSE UNCHANGED result
           ELSE UNCHANGED <<queries, result>>
    /\ pc' = "resolve_zip"
    /\ UNCHANGED <<catalog, acs, db, handles, tasks, request, response, call, fetched, prev>>

\* step 1: the input taken as a key
ResolveByKey ==
    /\ pc = "resolve_key"
    /\ LET trimmed == Trim(call.input)
       IN  IF LooksLikeGeoId(trimmed)
           THEN LET hit == ByKey(catalog, trimmed)
                IN  /\ queries' = Append(queries, Query("by_key", <<trimmed>>))
                    /\ IF hit # {}
                       THEN /\ \E a \in hit : result' = Location(a.geo_id, a.name)
                            /\ pc' = "done"
                       ELSE /\ pc' = "resolve_zip"
                            /\ UNCHANGED result
           ELSE /\ pc' = "resolve_zip"
                /\ UNCHANGED <<queries, result>>
    /\ UNCHANGED <<catalog, acs, db, handles, tasks, request, response, call, fetched, prev>>

\* step 2 returning the catalog's row instead of the digits
ResolveByZipCatalogName ==
    /\ pc = "resolve_zip"
    /\ LET trimmed == Trim(call.input)
       IN  IF IsZip(trimmed)
           THEN LET geoId == ZipGeoId(trimmed)
                    hit == ByKey(catalog, geoId)
                IN  /\ queries' = Append(queries, Query("by_key", <<geoId>>))
                    /\ IF hit # {}
                       THEN /\ \E a \in hit : result' = Location(a.geo_id, a.name)
                            /\ pc' = "done"
                       ELSE /\ pc' = "resolve_name"
                            /\ UNCHANGED result
           ELSE /\ pc' = "resolve_name"
                /\ UNCHANGED <<queries, result>>
    /\ UNCHANGED <<catalog, acs, db, handles, tasks, request, response, call, fetched, prev>>

\* step 2 without its lookup: the synthesized key is returned unchecked
ResolveByZipUnchecked ==
    /\ pc = "resolve_zip"
    /\ LET trimmed == Trim(call.input)
       IN  IF IsZip(trimmed)
           THEN /\ result' = Location(ZipGeoId(trimmed), trimmed)
                /\ pc' = "done"
                /\ UNCHANGED queries
           ELSE /\ pc' = "resolve_name"
                /\ UNCHANGED <<queries, result>>
    /\ UNCHANGED <<catalog, acs, db, handles, tasks, request, response, call, fetched, prev>>

\* step 2: five digits taken as a ZIP code
ResolveByZip ==
    /\ pc = "resolve_zip"
    /\ LET trimmed == Trim(call.input)
       IN  IF IsZip(trimmed)
           THEN LET geoId == ZipGeoId(trimmed)
                    hit == ByKey(catalog, geoId)
                IN  /\ queries' = Append(queries, Query("by_key", <<geoId>>))
                    /\ IF hit # {}
                       THEN /\ result' = Location(geoId, trimmed)
                            /\ pc' = "done"
                       ELSE /\ pc' = "resolve_name"
                            /\ UNCHANGED result
           ELSE /\ pc' = "resolve_name"
                /\ UNCHANGED <<queries, result>>
    /\ UNCHANGED <<catalog, acs, db, handles, tasks, request, response, call, fetched, prev>>

\* step 3: the name search
ResolveByName ==
    /\ pc = "resolve_name"
    /\ LET trimmed == Trim(call.input)
       IN  /\ queries' = Append(queries,
                  Query("by_name", <<trimmed, call.summaryLevel>>))
           /\ \E nameResults \in ResolveNameQuery(catalog, trimmed, call.summaryLevel) :
                  result' = IF Len(nameResults) > 0
                            THEN Location(nameResults[1].geo_id, nameResults[1].name)
                            ELSE Null
    /\ pc' = "done"
    /\ UNCHANGED <<catalog, acs, db, handles, tasks, request, response, call, fetched, prev>>

\* the caller takes the result; the server waits for the next request
Return ==
    /\ pc = "done"
    /\ pc' = "idle"
    /\ call' = NoCall
    /\ fetched' = <<>>
    /\ queries' = <<>>
    /\ result' = NoResult
    /\ prev' = NoResult
    /\ UNCHANGED <<catalog, acs, db, handles, tasks, request, response>>

(***************************************************************************)
(* searchLocations(searchQuery, summaryLevel, limit)                        *)
(***************************************************************************)
CallSearchLocations(searchQuery, summaryLevel, limit) ==
    /\ pc = "idle"
    /\ pc' = "search_rows"
    /\ call' = [op |-> "searchLocations", searchQuery |-> searchQuery,
                summaryLevel |-> summaryLevel, limit |-> limit]
    /\ UNCHANGED <<catalog, acs, db, handles, tasks, request, response, fetched, queries, result, prev>>

SearchRows ==
    /\ pc = "search_rows"
    /\ LET trimmed == Trim(call.searchQuery)
       IN  /\ fetched' \in SearchRowsQuery(catalog, trimmed, call.summaryLevel, call.limit)
           /\ queries' = Append(queries,
                  Query("search_rows", <<trimmed, call.summaryLevel, call.limit>>))
    /\ pc' = "search_count"
    /\ UNCHANGED <<catalog, acs, db, handles, tasks, request, response, call, result, prev>>

SearchCount ==
    /\ pc = "search_count"
    /\ LET trimmed == Trim(call.searchQuery)
           cnt == SearchCountQuery(catalog, trimmed, call.summaryLevel)
       IN  /\ queries' = Append(queries,
                  Query("search_count", <<trimmed, call.summaryLevel>>))
           /\ result' = [kind |-> "search", query |-> call.searchQuery,
                         results |-> [i \in 1..Len(fetched) |-> SearchResultRow(fetched[i])],
                         total_matches |-> cnt]
    /\ pc' = "done"
    /\ UNCHANGED <<catalog, acs, db, handles, tasks, request, response, call, fetched, prev>>

(***************************************************************************)
(* listGeographies(summaryLevel, parentGeoId, limit)                        *)
(***************************************************************************)
CallListGeographies(summaryLevel, parentGeoId, limit) ==
    /\ pc = "idle"
    /\ pc' = "list_rows"
    /\ call' = [op |-> "listGeographies", summaryLevel |-> summaryLevel,
                parentGeoId |-> parentGeoId, limit |-> limit]
    /\ UNCHANGED <<catalog, acs, db, handles, tasks, request, response, fetched, queries, result, prev>>

ListRows ==
    /\ pc = "list_rows"
    /\ LET levelCode == LevelCodeOf(call.summaryLevel)
       IN  /\ fetched' \in ListRowsQuery(catalog, levelCode, call.parentGeoId, call.limit)
           /\ queries' = Append(queries,
                  Query("list_rows", <<levelCode, call.parentGeoId, call.limit>>))
    /\ pc' = "list_count"
    /\ UNCHANGED <<catalog, acs, db, handles, tasks, request, response, call, result, prev>>

ListCount ==
    /\ pc = "list_count"
    /\ LET levelCode == LevelCodeOf(call.summaryLevel)
           levelName == OrElse(Lookup(SUMMARY_LEVELS, levelCode), call.summaryLevel)
           cnt == ListCountQuery(catalog, levelCode, call.parentGeoId)
       IN  /\ queries' = Append(queries,
                  Query("list_count", <<levelCode, call.parentGeoId>>))
           /\ result' = [kind |-> "list", summary_level |-> levelCode,
                         summary_level_name |-> levelName,
                         parent_geo_id |-> call.parentGeoId,
                         results |-> [i \in 1..Len(fetched) |-> ListResultRow(fetched[i])],
                         total_count |-> cnt]
    /\ pc' = "done"
    /\ UNCHANGED <<catalog, acs, db, handles, tasks, request, response, call, fetched, prev>>

(***************************************************************************)
(* lookupLocation(latitude, longitude, tables)                              *)
(***************************************************************************)
CallLookupLocation(latitude, longitude, tables) ==
    /\ pc = "idle"
    /\ pc' = "lookup_geo"
    /\ call' = [op |-> "lookupLocation", latitude |-> latitude,
                longitude |-> longitude, tables |-> tables]
    /\ UNCHANGED <<catalog, acs, db, handles, tasks, request, response, fetched, queries, result, prev>>

LookupGeo ==
    /\ pc = "lookup_geo"
    /\ queries' = Append(queries, Query("lookup_geo", <<call.longitude, call.latitude>>))
    /\ \E geoResults \in LookupGeoQuery(catalog, call.latitude, call.longitude) :
           IF Len(geoResults) = 0
           THEN /\ result' = Null
                /\ pc' = "done"
                /\ UNCHANGED fetched
           ELSE /\ fetched' = geoResults
                /\ pc' = "lookup_data"
                /\ UNCHANGED result
    /\ UNCHANGED <<catalog, acs, db, handles, tasks, request, response, call, prev>>

LookupData ==
    /\ pc = "lookup_data"
    /\ LET geo == fetched[1]
       IN  /\ queries' = Append(queries, Query("lookup_data", <<geo.geo_id>> \o call.tables))
           /\ \E dataResults \in LookupDataQuery(geo.geo_id, call.tables) :
                  result' = [kind |-> "lookup", geo_id |-> geo.geo_id, name |-> geo.name,
                             summary_level |-> getSummaryLevel(geo.geo_id),
                             data |-> {LookupDataRow(row) : row \in dataResults}]
    /\ pc' = "done"
    /\ UNCHANGED <<catalog, acs, db, handles, tasks, request, response, call, fetched, prev>>

\* getSummaryLevel(geoId) called on its own; it issues no query
CallGetSummaryLevel(geoId) ==
    /\ pc = "idle"
    /\ pc' = "done"
    /\ call' = [op |-> "getSummaryLevel", geoId |-> geoId]
    /\ result' = [kind |-> "level", level |-> getSummaryLevel(geoId)]
    /\ UNCHANGED <<catalog, acs, db, handles, tasks, request, response, fetched, queries, prev>>

(***************************************************************************)
(* rankAreasByMetric(params)                                                *)
(***************************************************************************)
\* const { ..., population_group = '0000', min_population = 10000, ... } = params
Destructure(params) ==
    [params EXCEPT
        !.population_group = IF params.population_group.given
                             THEN params.population_group.value
                             ELSE DefaultPopulationGroup,
        !.min_population = IF params.min_population.given
                           THEN params.min_population.value
                           ELSE DefaultMinPopulation]

CallRankAreasByMetric(params) ==
    /\ pc = "idle"
    /\ pc' = "rank_label"
    /\ call' = [op |-> "rankAreasByMetric", params |-> params, req |-> Destructure(params)]
    /\ UNCHANGED <<catalog, acs, db, handles, tasks, request, response, fetched, queries, result, prev>>

\* the label query and the label of the response.  With an empty list of
\* metric ids the parameter is undefined: the driver rejects it, or binds it
\* as NULL and the query finds nothing.
RankLabel ==
    /\ pc = "rank_label"
    /\ LET firstMetricId == FirstMetricId(call.req.metric_id)
       IN  /\ queries' = Append(queries, Query("metric_info", <<firstMetricId>>))
           /\ \/ /\ fetched' = [metricLabel |->
                                    MetricLabel(call.req.metric_id, call.req.denominator_id,
                                                MetricInfoQuery(firstMetricId)),
                                results |-> <<>>]
                 /\ pc' = "rank_rows"
                 /\ UNCHANGED result
              \/ /\ MetricIds(call.req.metric_id) = <<>>
                 /\ result' = [kind |-> "error"]
                 /\ pc' = "done"
                 /\ UNCHANGED fetched
    /\ UNCHANGED <<catalog, acs, db, handles, tasks, request, response, call, prev>>

\* the row query of the branch taken.  uid IN () of an empty list of ids is
\* no SQL: the query is rejected and the call ends with the error.
RankRows ==
    /\ pc = "rank_rows"
    /\ LET req == call.req
           branch == Branch(req.metric_id, req.denominator_id)
           ids == IF branch = "rate"
                  THEN MetricIds(req.metric_id) \o DenominatorIds(req.denominator_id)
                  ELSE MetricIds(req.metric_id)
       IN  /\ queries' = Append(queries, Query(branch \o "_rows", ids))
           /\ IF /\ branch = "rate"
                 /\ \/ DenominatorIds(req.denominator_id) = <<>>
                    \/ MetricIds(req.metric_id) = <<>>
              THEN /\ result' = [kind |-> "error"]
                   /\ pc' = "done"
                   /\ UNCHANGED fetched
              ELSE /\ pc' = "rank_count"
                   /\ UNCHANGED result
                   /\ \/ /\ branch = "rate"
                         /\ \E undefinedFirst \in BOOLEAN :
                            \E found \in RateRowsQuery(acs, catalog, req, undefinedFirst) :
                                fetched' = [fetched EXCEPT !.results =
                                    [i \in 1..Len(found) |-> RateResultRow(found[i])]]
                      \/ /\ branch = "sum"
                         /\ \E found \in SumRowsQuery(acs, catalog, req) :
                                fetched' = [fetched EXCEPT !.results =
                                    [i \in 1..Len(found) |-> SumResultRow(found[i])]]
                      \/ /\ branch = "direct"
                         /\ \E found \in DirectRowsQuery(acs, catalog, req) :
                                fetched' = [fetched EXCEPT !.results =
                                    [i \in 1..Len(found) |-> DirectResultRow(found[i])]]
    /\ UNCHANGED <<catalog, acs, db, handles, tasks, request, response, call, prev>>

\* the count query of the branch taken, and the response
RankCount ==
    /\ pc = "rank_count"
    /\ LET req == call.req
           branch == Branch(req.metric_id, req.denominator_id)
           totalMatches == IF branch = "rate" THEN RateCountQuery(acs, req)
                           ELSE IF branch = "sum" THEN SumCountQuery(acs, req)
                           ELSE DirectCountQuery(acs, req)
       IN  /\ queries' = Append(queries, Query(branch \o "_count", <<>>))
           /\ result' = [kind |-> "ranking", metric |-> fetched.metricLabel,
                         results |-> fetched.results, total_matches |-> totalMatches]
    /\ pc' = "done"
    /\ UNCHANGED <<catalog, acs, db, handles, tasks, request, response, call, fetched, prev>>

Next ==
    \/ \E input \in LocationInputs, summaryLevel \in LevelHints :
           CallResolveLocation(input, summaryLevel)
    \/ RepeatResolveLocation
    \/ ResolveByKey
    \/ ResolveByZip
    \/ ResolveByName
    \/ \E searchQuery \in SearchInputs, summaryLevel \in LevelHints, limit \in Limits :
           CallSearchLocations(searchQuery, summaryLevel, limit)
    \/ SearchRows
    \/ SearchCount
    \/ \E summaryLevel \in ListLevels, parentGeoId \in ParentInputs, limit \in Limits :
           CallListGeographies(summaryLevel, parentGeoId, limit)
    \/ ListRows
    \/ ListCount
    \/ \E latitude \in Latitudes, longitude \in Longitudes, tables \in TableFilters :
           CallLookupLocation(latitude, longitude, tables)
    \/ LookupGeo
    \/ LookupData
    \/ \E geoId \in LevelKeyInputs : CallGetSummaryLevel(geoId)
    \/ Return

Spec == Init /\ [][Next]_vars

(***************************************************************************)
(* The Ranking Engine on its own: rankings over a table of observations     *)
(* with up to MaxMissing of them missing.                                   *)
(***************************************************************************)
RankInit ==
    /\ catalog \in RankCatalogs
    /\ acs \in ObservationTables
    /\ db = 1
    /\ handles = <<ConfiguredHandle>>
    /\ tasks = [c \in Callers |-> IdleTask]
    /\ request = NoRequest
    /\ response = NoResponse
    /\ pc = "idle"
    /\ call = NoCall
    /\ fetched = <<>>
    /\ queries = <<>>
    /\ result = NoResult
    /\ prev = NoResult

RankNext ==
    \/ \E params \in RankRequests : CallRankAreasByMetric(params)
    \/ RankLabel
    \/ RankRows
    \/ RankCount
    \/ Return

SpecRank == RankInit /\ [][RankNext]_vars

(***************************************************************************)
(* getDatabase(), query(sql, params) and closeDatabase() of the Store       *)
(* Manager, called by concurrent callers.  An await is the end of a step:   *)
(* the module variable db is read again by the statement that follows it.   *)
(***************************************************************************)
\* the call starts: if (db) return db; else Database.create(':memory:')
\* is under way.  query begins with await getDatabase().
GetDatabaseEnter(c, op) ==
    /\ tasks[c].pc = "idle"
    /\ tasks' = [tasks EXCEPT ![c] =
                    IF db # 0
                    THEN Task("ready", op, 0, 0, db, "none", "none", NoOutcome)
                    ELSE Task("creating", op, 0, 0, 0, "none", "none", NoOutcome)]
    /\ UNCHANGED <<catalog, acs, db, handles, request, response, pc, call, fetched, queries, result, prev>>

\* db = await Database.create(':memory:'), and the first statement is sent
\* to db
CreateDone(c) ==
    /\ tasks[c].pc = "creating"
    /\ handles' = Append(handles, NewHandle)
    /\ db' = Len(handles) + 1
    /\ tasks' = [tasks EXCEPT ![c] = [@ EXCEPT !.pc = "config", !.step = 1,
                                                !.target = Len(handles) + 1]]
    /\ UNCHANGED <<catalog, acs, request, response, pc, call, fetched, queries, result, prev>>

\* await db.run(statement) ends: the statement has taken effect on the
\* handle it was sent to, or failed there (a closed handle, a catalog name
\* attached already); then the next statement is sent to db, or db is returned
ConfigDone(c) ==
    /\ tasks[c].pc = "config"
    /\ LET k == tasks[c].step
           h == tasks[c].target
           statement == ConfigSteps[k]
       IN  IF \/ handles[h].closed
              \/ statement \in AttachSteps /\ statement \in Range(handles[h].applied)
           THEN /\ tasks' = [tasks EXCEPT ![c] =
                                [@ EXCEPT !.pc = "failed",
                                          !.outcome = [kind |-> "error", value |-> JsNull]]]
                /\ UNCHANGED handles
           ELSE /\ handles' = [handles EXCEPT ![h].applied = Append(@, statement)]
                /\ tasks' = [tasks EXCEPT ![c] =
                                IF k < Len(ConfigSteps)
                                THEN [@ EXCEPT !.step = k + 1, !.target = db]
                                ELSE [@ EXCEPT !.pc = "ready", !.database = db]]
    /\ UNCHANGED <<catalog, acs, db, request, response, pc, call, fetched, queries, result, prev>>

\* query: the timer is set and database.all(sql, ...params) is started on the
\* handle getDatabase returned; the caller awaits Promise.race of the two
QueryStart(c) ==
    /\ tasks[c].pc = "ready" /\ tasks[c].op = "query"
    /\ tasks' = [tasks EXCEPT ![c] = [@ EXCEPT !.pc = "racing", !.query = "running",
                                                !.timer = "armed"]]
    /\ UNCHANGED <<catalog, acs, db, handles, request, response, pc, call, fetched, queries, result, prev>>

\* database.all resolving with the result handed to the caller whenever it
\* comes, a timeout delivered before it or not
QueryCompletesOverrides(c, rows) ==
    /\ tasks[c].query = "running"
    /\ tasks' = [tasks EXCEPT ![c] =
                    [@ EXCEPT !.pc = "delivered", !.query = "done",
                              !.outcome = [kind |-> "rows", value |-> convertBigInts(rows)]]]
    /\ UNCHANGED <<catalog, acs, db, handles, request, response, pc, call, fetched, queries, result, prev>>

\* database.all resolves: the race, if still open, is won and the caller gets
\* convertBigInts(result)
QueryCompletes(c, rows) ==
    /\ tasks[c].query = "running"
    /\ tasks' = [tasks EXCEPT ![c] =
                    IF @.pc = "racing"
                    THEN [@ EXCEPT !.pc = "delivered", !.query = "done",
                                   !.outcome = [kind |-> "rows", value |-> convertBigInts(rows)]]
                    ELSE [@ EXCEPT !.query = "done"]]
    /\ UNCHANGED <<catalog, acs, db, handles, request, response, pc, call, fetched, queries, result, prev>>

\* database.all rejects
QueryRejects(c) ==
    /\ tasks[c].query = "running"
    /\ tasks' = [tasks EXCEPT ![c] =
                    IF @.pc = "racing"
                    THEN [@ EXCEPT !.pc = "delivered", !.query = "failed",
                                   !.outcome = [kind |-> "error", value |-> JsNull]]
                    ELSE [@ EXCEPT !.query = "failed"]]
    /\ UNCHANGED <<catalog, acs, db, handles, request, response, pc, call, fetched, queries, result, prev>>

\* setTimeout fires after queryTimeoutMs: reject(new Error('Query timeout'))
TimerFires(c) ==
    /\ tasks[c].timer = "armed"
    /\ tasks' = [tasks EXCEPT ![c] =
                    IF @.pc = "racing"
                    THEN [@ EXCEPT !.pc = "delivered", !.timer = "fired",
                                   !.outcome = [kind |-> "timeout", value |-> JsNull]]
                    ELSE [@ EXCEPT !.timer = "fired"]]
    /\ UNCHANGED <<catalog, acs, db, handles, request, response, pc, call, fetched, queries, result, prev>>

\* the caller goes on with what it was given and may call again
TaskReturn(c) ==
    /\ \/ tasks[c].pc = "ready" /\ tasks[c].op = "getDatabase"
       \/ tasks[c].pc = "delivered"
       \/ tasks[c].pc = "failed"
    /\ tasks' = [tasks EXCEPT ![c] = IdleTask]
    /\ UNCHANGED <<catalog, acs, db, handles, request, response, pc, call, fetched, queries, result, prev>>

\* closeDatabase at shutdown: if (db) await db.close() is under way
CloseEnter(c) ==
    /\ tasks[c].pc = "idle"
    /\ db # 0
    /\ tasks' = [tasks EXCEPT ![c] = Task("closing", "closeDatabase", 0, db, 0,
                                          "none", "none", NoOutcome)]
    /\ UNCHANGED <<catalog, acs, db, handles, request, response, pc, call, fetched, queries, result, prev>>

\* db.close() ends: db = null, and the process exits
CloseDone(c) ==
    /\ tasks[c].pc = "closing"
    /\ handles' = [handles EXCEPT ![tasks[c].target].closed = TRUE]
    /\ db' = 0
    /\ tasks' = [t \in Callers |-> [tasks[t] EXCEPT !.pc = "exited"]]
    /\ UNCHANGED <<catalog, acs, request, response, pc, call, fetched, queries, result, prev>>

\* the process starts: no handle, nothing in progress
StoreInit ==
    /\ catalog = {StateCA, CountyCA}
    /\ acs = Observations
    /\ db = 0
    /\ handles = <<>>
    /\ tasks = [c \in Callers |-> IdleTask]
    /\ request = NoRequest
    /\ response = NoResponse
    /\ pc = "idle"
    /\ call = NoCall
    /\ fetched = <<>>
    /\ queries = <<>>
    /\ result = NoResult
    /\ prev = NoResult

StoreNext ==
    \E c \in Callers :
        \/ \E op \in {"getDatabase", "query"} : GetDatabaseEnter(c, op)
        \/ CreateDone(c)
        \/ ConfigDone(c)
        \/ QueryStart(c)
        \/ \E rows \in RawResults : QueryCompletes(c, rows)
        \/ QueryRejects(c)
        \/ TimerFires(c)
        \/ TaskReturn(c)
        \/ CloseEnter(c)
        \/ CloseDone(c)

SpecStore == StoreInit /\ [][StoreNext]_vars

(***************************************************************************)
(* The tool handler of the server: await getDatabase(), Schema.parse(args), *)
(* the tool, and the response; an exception thrown anywhere in between is   *)
(* caught and answered with its message.  Arguments are modelled by their   *)
(* presence and value: Given(value), or omitted.  Percentiles are in steps  *)
(* of 1/PctScale, so that PctScale stands for 1.                            *)
(***************************************************************************)
OmittedString == [given |-> FALSE, value |-> <<>>]

\* z.number() without the two bounds
AnyNumber(arg, lo, hi) == arg.given

\* z.number().min(lo).max(hi)
NumberIn(arg, lo, hi) == arg.given /\ lo <= arg.value /\ arg.value <= hi

\* .default(value)
WithDefault(arg, value) == IF arg.given THEN arg.value ELSE value

\* .optional(): undefined, which the tools take as no argument
Optional(arg) == IF arg.given THEN arg.value ELSE <<>>

Success(data) == [success |-> TRUE, data |-> data]

\* parse throws a ZodError
Failure == [success |-> FALSE, data |-> <<>>]

LookupLocationSchema(args) ==
    IF /\ NumberIn(args.latitude, -90, 90)
       /\ NumberIn(args.longitude, -180, 180)
    THEN Success([latitude |-> args.latitude.value, longitude |-> args.longitude.value,
                  tables |-> args.tables])
    ELSE Failure

SearchLocationsSchema(args) ==
    IF args.query.given
    THEN Success([query |-> args.query.value, summary_level |-> Optional(args.summary_level),
                  limit |-> WithDefault(args.limit, 20)])
    ELSE Failure

ListGeographiesSchema(args) ==
    IF args.summary_level.given
    THEN Success([summary_level |-> args.summary_level.value,
                  parent_geo_id |-> Optional(args.parent_geo_id),
                  limit |-> WithDefault(args.limit, 100)])
    ELSE Failure

RankAreasByMetricSchema(args) ==
    IF /\ args.metric_id.kind \in {"string", "array"}
       /\ args.denominator_id.kind \in {"undefined", "string", "array"}
       /\ args.order.given => args.order.value \in {"desc", "asc"}
       /\ args.percentile_min.given => NumberIn(args.percentile_min, 0, PctScale)
       /\ args.percentile_max.given => NumberIn(args.percentile_max, 0, PctScale)
    THEN Success(RankParams(args.metric_id, args.denominator_id,
                            WithDefault(args.order, "desc"),
                            WithDefault(args.percentile_min, 0),
                            WithDefault(args.percentile_max, PctScale),
                            Optional(args.summary_level), Optional(args.state_fips),
                            Given(WithDefault(args.population_group, DefaultPopulationGroup)),
                            Given(WithDefault(args.min_population, DefaultMinPopulation)),
                            WithDefault(args.limit, 10)))
    ELSE Failure

Request(name, args) == [name |-> name, args |-> args]

\* { content: [{ type: 'text', text: JSON.stringify(result, null, 2) }] }, or
\* the text that nothing was found when the result is null
TextResponse(body) == [kind |-> "text", body |-> body]

\* { content: [{ type: 'text', text: `Error: ${message}` }] }
ErrorResponse == [kind |-> "error", body |-> NoResult]

\* the arguments of the tool calls received
LatitudeArgs == { Given(0), Given(90), Given(91), Given(0 - 91), OmittedNumber }

LongitudeArgs == { Given(1), Given(181) }

LookupLocationArgs ==
    { [latitude |-> latitude, longitude |-> longitude, tables |-> tables] :
        latitude \in LatitudeArgs, longitude \in LongitudeArgs, tables \in TableFilters }

LevelArgs == { OmittedString, Given(<<"0", "5", "0">>) }

LimitArgs == { OmittedNumber, Given(1) }

SearchLocationsArgs ==
    { [query |-> searchQuery, summary_level |-> level, limit |-> limit] :
        searchQuery \in { OmittedString, Given(<<" ", "o", "r", " ">>) },
        level \in LevelArgs, limit \in LimitArgs }

ListGeographiesArgs ==
    { [summary_level |-> level, parent_geo_id |-> parent, limit |-> limit] :
        level \in LevelArgs,
        parent \in { OmittedString, Given(<<"0", "4", "0", "0", "0", "0", "0", "U", "S", "0", "6">>) },
        limit \in LimitArgs }

PercentileArgs == { OmittedNumber, Given(0 - 1), Given(0), Given(PctScale), Given(PctScale + 1) }

OrderArgs == { [given |-> FALSE, value |-> ""], Given("asc"), Given("up") }

RankAreasByMetricArgs ==
    { [metric_id |-> m, denominator_id |-> d, order |-> o, percentile_min |-> lo,
       percentile_max |-> hi, summary_level |-> OmittedString, state_fips |-> OmittedString,
       population_group |-> OmittedString, min_population |-> OmittedNumber,
       limit |-> Given(MaxLimit)] :
        m \in { NoIds, OneId("A"), IdList(<<>>), IdList(<<"A", "B">>) },
        d \in { NoIds, OneId("C") }, o \in OrderArgs,
        lo \in PercentileArgs, hi \in PercentileArgs }

\* the catalogs the server runs on
ServerCatalogs == { {StateCA, CountyCA, CountyTX}, {StateCA, ZipCA} }

\* the request is answered from the catch block: parse has thrown
Reject(name, args) ==
    /\ request' = Request(name, args)
    /\ response' = ErrorResponse
    /\ call' = [op |-> "rejected"]
    /\ pc' = "responded"
    /\ UNCHANGED <<catalog, acs, db, handles, tasks, fetched, queries, result, prev>>

\* case 'lookup_location'
HandleLookupLocation(args) ==
    /\ pc = "idle" /\ db # 0
    /\ LET parsed == LookupLocationSchema(args)
       IN  IF parsed.success
           THEN /\ request' = Request("lookup_location", args)
                /\ pc' = "lookup_geo"
                /\ call' = [op |-> "lookupLocation", latitude |-> parsed.data.latitude,
                            longitude |-> parsed.data.longitude, tables |-> parsed.data.tables]
                /\ UNCHANGED <<catalog, acs, db, handles, tasks, response, fetched, queries, result, prev>>
           ELSE Reject("lookup_location", args)

\* case 'search_locations'
HandleSearchLocations(args) ==
    /\ pc = "idle" /\ db # 0
    /\ LET parsed == SearchLocationsSchema(args)
       IN  IF parsed.success
           THEN /\ request' = Request("search_locations", args)
                /\ pc' = "search_rows"
                /\ call' = [op |-> "searchLocations", searchQuery |-> parsed.data.query,
                            summaryLevel |-> parsed.data.summary_level,
                            limit |-> parsed.data.limit]
                /\ UNCHANGED <<catalog, acs, db, handles, tasks, response, fetched, queries, result, prev>>
           ELSE Reject("search_locations", args)

\* case 'list_geographies'
HandleListGeographies(args) ==
    /\ pc = "idle" /\ db # 0
    /\ LET parsed == ListGeographiesSchema(args)
       IN  IF parsed.success
           THEN /\ request' = Request("list_geographies", args)
                /\ pc' = "list_rows"
                /\ call' = [op |-> "listGeographies", summaryLevel |-> parsed.data.summary_level,
                            parentGeoId |-> parsed.data.parent_geo_id,
                            limit |-> parsed.data.limit]
                /\ UNCHANGED <<catalog, acs, db, handles, tasks, response, fetched, queries, result, prev>>
           ELSE Reject("list_geographies", args)

\* case 'rank_areas_by_metric'
HandleRankAreasByMetric(args) ==
    /\ pc = "idle" /\ db # 0
    /\ LET parsed == RankAreasByMetricSchema(args)
       IN  IF parsed.success
           THEN /\ request' = Request("rank_areas_by_metric", args)
                /\ pc' = "rank_label"
                /\ call' = [op |-> "rankAreasByMetric", params |-> parsed.data,
                            req |-> Destructure(parsed.data)]
                /\ UNCHANGED <<catalog, acs, db, handles, tasks, response, fetched, queries, result, prev>>
           ELSE Reject("rank_areas_by_metric", args)

\* the steps of a tool at which it awaits query(sql, params)
QuerySteps ==
    { "lookup_geo", "lookup_data", "search_rows", "search_count", "list_rows", "list_count",
      "rank_label", "rank_rows", "rank_count" }

\* a query fails and the tool goes on to issue it once more
QueryFailsRetried ==
    /\ pc \in QuerySteps
    /\ result.kind # "error"
    /\ queries' = Append(queries, Query("failed", <<pc>>))
    /\ result' = [kind |-> "error"]
    /\ UNCHANGED <<catalog, acs, db, handles, tasks, request, response, pc, call, fetched, prev>>

\* the query the tool awaits rejects, with the engine's error or with 'Query
\* timeout': the exception leaves the tool, which has no try block
QueryFails ==
    /\ pc \in QuerySteps
    /\ queries' = Append(queries, Query("failed", <<pc>>))
    /\ result' = [kind |-> "error"]
    /\ pc' = "done"
    /\ UNCHANGED <<catalog, acs, db, handles, tasks, request, response, call, fetched, prev>>

\* the return of the case, or of the catch block
Respond ==
    /\ pc = "done"
    /\ response' = IF result.kind = "error" THEN ErrorResponse ELSE TextResponse(result)
    /\ pc' = "responded"
    /\ UNCHANGED <<catalog, acs, db, handles, tasks, request, call, fetched, queries, result, prev>>

\* the handler has returned; the server waits for the next tool call
NextRequest ==
    /\ pc = "responded"
    /\ pc' = "idle"
    /\ request' = NoRequest
    /\ response' = NoResponse
    /\ call' = NoCall
    /\ fetched' = <<>>
    /\ queries' = <<>>
    /\ result' = NoResult
    /\ prev' = NoResult
    /\ UNCHANGED <<catalog, acs, db, handles, tasks>>

\* the server after main has awaited getDatabase() and connected a transport
ServerInit ==
    /\ catalog \in ServerCatalogs
    /\ acs = Observations
    /\ db = 1
    /\ handles = <<ConfiguredHandle>>
    /\ tasks = [c \in Callers |-> IdleTask]
    /\ request = NoRequest
    /\ response = NoResponse
    /\ pc = "idle"
    /\ call = NoCall
    /\ fetched = <<>>
    /\ queries = <<>>
    /\ result = NoResult
    /\ prev = NoResult

ServerNext ==
    \/ \E args \in LookupLocationArgs : HandleLookupLocation(args)
    \/ \E args \in SearchLocationsArgs : HandleSearchLocations(args)
    \/ \E args \in ListGeographiesArgs : HandleListGeographies(args)
    \/ \E args \in RankAreasByMetricArgs : HandleRankAreasByMetric(args)
    \/ LookupGeo
    \/ LookupData
    \/ SearchRows
    \/ SearchCount
    \/ ListRows
    \/ ListCount
    \/ RankLabel
    \/ RankRows
    \/ RankCount
    \/ QueryFails
    \/ Respond
    \/ NextRequest

SpecServer == ServerInit /\ [][ServerNext]_vars

(***************************************************************************)
(* Properties.  The helpers below state what the specification says, in    *)
(* terms of substrings, prefixes and key segments rather than of the SQL.  *)
(***************************************************************************)
Keys(areas) == {a.geo_id : a \in areas}

Resolved == pc = "done" /\ call.op = "resolveLocation"

\* the display name contains the text, case-insensitively
ContainsName(a, text) == Includes(ToLower(a.name), ToLower(text))

\* the key is at the level the hint names (a level code or a level name)
AtHintLevel(a, hint) ==
    LET code == IF \E e \in SUMMARY_LEVEL_NAMES : e[1] = hint
                THEN (CHOOSE e \in SUMMARY_LEVEL_NAMES : e[1] = hint)[2]
                ELSE hint
    IN  hint # <<>> => StartsWith(a.geo_id, code)

NameMatchesOf(areas, text, hint) ==
    {a \in areas : ContainsName(a, text) /\ AtHintLevel(a, hint)}

LevelOf(a) == SubSeq(a.geo_id, 1, 3)

\* state before metro before county before every other level
NameRank(a) ==
    CASE LevelOf(a) = <<"0", "4", "0">> -> 1
      [] LevelOf(a) = <<"3", "1", "0">> -> 2
      [] LevelOf(a) = <<"0", "5", "0">> -> 3
      [] OTHER -> 4

\* b is strictly better than a: a higher level priority, or the same and a shorter name
StrictlyBetter(b, a) ==
    \/ NameRank(b) < NameRank(a)
    \/ NameRank(b) = NameRank(a) /\ Len(b.name) < Len(a.name)

BestNameMatches(areas, text, hint) ==
    LET m == NameMatchesOf(areas, text, hint)
    IN  {a \in m : \A b \in m : ~StrictlyBetter(b, a)}

\* C1: resolveLocation trims the input and tries the exact-key lookup (input
\* starts with a digit and contains US), then the lookup of the synthesized ZIP
\* key (input is five digits), then the name search.  The first hit is the
\* result and no later query is issued; a miss falls through; the level hint
\* plays no part in a direct-key hit; when every step misses the result is null.
C1_ResolveOrder ==
    call.op = "resolveLocation" =>
        LET t == Trim(call.input)
            keyStep == t # <<>> /\ t[1] \in Range(Digits) /\ Includes(t, US)
            zipStep == Len(t) = 5 /\ \A i \in 1..5 : t[i] \in Range(Digits)
            zipKey == <<"8", "6", "0", "Z", "2", "0", "0", "U", "S">> \o t
            keyHit == keyStep /\ t \in Keys(catalog)
            zipHit == zipStep /\ zipKey \in Keys(catalog)
            keyQuery == IF keyStep THEN <<Query("by_key", <<t>>)>> ELSE <<>>
            zipQuery == IF zipStep THEN <<Query("by_key", <<zipKey>>)>> ELSE <<>>
            nameQuery == <<Query("by_name", <<t, call.summaryLevel>>)>>
        IN  /\ pc = "resolve_key" => queries = <<>>
            /\ pc = "resolve_zip" => ~keyHit /\ queries = keyQuery
            /\ pc = "resolve_name" => ~keyHit /\ ~zipHit /\ queries = keyQuery \o zipQuery
            /\ pc = "done" =>
                 IF keyHit
                 THEN /\ queries = keyQuery
                      /\ result.kind = "location" /\ result.geo_id = t
                 ELSE IF zipHit
                 THEN /\ queries = keyQuery \o zipQuery
                      /\ result.kind = "location" /\ result.geo_id = zipKey
                 ELSE /\ queries = keyQuery \o zipQuery \o nameQuery
                      /\ IF NameMatchesOf(catalog, t, call.summaryLevel) = {}
                         THEN result = Null
                         ELSE /\ result.kind = "location"
                              /\ result.geo_id \in
                                   Keys(NameMatchesOf(catalog, t, call.summaryLevel))

\* a direct-key hit on a state although the hint names the county level
C1_Witness ==
    /\ Resolved
    /\ call.input = StateCA.geo_id
    /\ call.summaryLevel = <<"0", "5", "0">>
    /\ result = Location(StateCA.geo_id, StateCA.name)

\* a ZIP miss that falls through to a hit of the name search
C1_WitnessFallThrough ==
    /\ Resolved
    /\ call.input = <<"9", "0", "2", "1", "0">>
    /\ Len(queries) = 2
    /\ result = Location(TractCA.geo_id, TractCA.name)

\* C2: for an input of exactly five digits d whose key 860Z200US + d is in the
\* catalog, resolveLocation returns that key with d as the display name,
\* whatever the level hint.
C2_ZipShorthand ==
    Resolved =>
        LET d == call.input
        IN  (/\ Len(d) = 5
             /\ \A i \in 1..5 : d[i] \in Range(Digits)
             /\ (<<"8", "6", "0", "Z", "2", "0", "0", "U", "S">> \o d) \in Keys(catalog))
            => result = Location(<<"8", "6", "0", "Z", "2", "0", "0", "U", "S">> \o d, d)

\* 90210 resolved under a county hint, from a catalog that names the ZIP area Unknown
C2_Witness ==
    /\ Resolved
    /\ call.input = <<"9", "0", "2", "1", "0">>
    /\ call.summaryLevel = <<"0", "5", "0">>
    /\ ZipCA \in catalog
    /\ result.geo_id = ZipCA.geo_id
    /\ result.name # ZipCA.name

C3_WitnessLength ==
    /\ Resolved
    /\ call.input = <<" ", "o", "r", " ">>
    /\ call.summaryLevel = <<"0", "5", "0">>
    /\ {CountyCA, StateCA} \subseteq catalog
    /\ result = Location(CountyCA.geo_id, CountyCA.name)

\* C4: for a fixed catalog, two calls of resolveLocation with the same input
\* and hint return the same key, also when several name-search candidates have
\* the same level priority and the same display-name length.
C4_SameAnswerTwice ==
    (Resolved /\ prev # NoResult) => result = prev

\* C5 as stated: every key resolveLocation returns is canonical: its
\* population-group segment (characters 4 to 7) is 0000, for every input and
\* every catalog.
C5_AlwaysCanonical ==
    (Resolved /\ result.kind = "location") => GroupOf(result.geo_id) = <<"0", "0", "0", "0">>

Searched == pc = "done" /\ call.op = "searchLocations"

\* the order of searchLocations among levels: state, metro, county, ZIP, tract,
\* block group, every other level
SearchRank(a) ==
    CASE LevelOf(a) = <<"0", "4", "0">> -> 1
      [] LevelOf(a) = <<"3", "1", "0">> -> 2
      [] LevelOf(a) = <<"0", "5", "0">> -> 3
      [] LevelOf(a) = <<"8", "6", "0">> -> 4
      [] LevelOf(a) = <<"1", "4", "0">> -> 5
      [] LevelOf(a) = <<"1", "5", "0">> -> 6
      [] OTHER -> 7

\* a comes no later than b under level rank, then name length, then name
SearchNoLater(a, b) ==
    \/ SearchRank(a) < SearchRank(b)
    \/ /\ SearchRank(a) = SearchRank(b)
       /\ \/ Len(a.name) < Len(b.name)
          \/ Len(a.name) = Len(b.name) /\ ~LexLess(Codes(b.name), Codes(a.name))

\* C6 as stated: searchLocations ranks the matches of resolveLocation's name
\* search by the same keys (state, metro, county, every other level, then
\* shorter name), so its result is an ordering the name search accepts and its
\* first element is a valid resolveLocation answer.
C6_SameOrdering ==
    Searched =>
        LET t == Trim(call.searchQuery)
            r == result.results
        IN  /\ result.total_matches =
                   Cardinality(NameMatchesOf(catalog, t, call.summaryLevel))
            /\ \A i \in 1..Len(r) : \A j \in (i + 1)..Len(r) : ~StrictlyBetter(r[j], r[i])
            /\ r # <<>> =>
                   r[1].geo_id \in Keys(BestNameMatches(catalog, t, call.summaryLevel))

\* C6 amended: searchLocations selects the candidate set of resolveLocation's
\* name search and ranks it by state, metro, county, ZIP, tract, block group,
\* every other level, then shorter display name, then display name.  Its first
\* element is a valid resolveLocation answer whenever it is a state, a metro or
\* a county.
C6_RefinedOrdering ==
    Searched =>
        LET t == Trim(call.searchQuery)
            m == NameMatchesOf(catalog, t, call.summaryLevel)
            r == result.results
        IN  /\ result.total_matches = Cardinality(m)
            /\ \A i \in 1..Len(r) :
                   /\ \E a \in m : r[i].geo_id = a.geo_id /\ r[i].name = a.name
                   /\ \A j \in (i + 1)..Len(r) : SearchNoLater(r[i], r[j])
                   /\ \A a \in m :
                          (\A k \in 1..Len(r) : r[k].geo_id # a.geo_id) => SearchNoLater(r[i], a)
            /\ (r # <<>> /\ SearchRank(r[1]) <= 3) =>
                   r[1].geo_id \in Keys(BestNameMatches(catalog, t, call.summaryLevel))

\* a search whose first element is a county that resolveLocation would return as well,
\* ahead of a block group with a longer name
C6_Witness ==
    /\ Searched
    /\ call.searchQuery = <<" ", "o", "r", " ">>
    /\ Len(result.results) = 2
    /\ result.results[1].geo_id = CountyTX.geo_id
    /\ result.results[2].geo_id = BlockGroupCA.geo_id

\* C7: searchLocations returns at most limit results; total_matches is the
\* number of all catalog areas that satisfy the name predicate and the level
\* filter, whatever the limit; the number of results is min(limit, total_matches).
C7_LimitAndTotal ==
    Searched =>
        LET m == NameMatchesOf(catalog, Trim(call.searchQuery), call.summaryLevel)
        IN  /\ Len(result.results) <= call.limit
            /\ result.total_matches = Cardinality(m)
            /\ Len(result.results) = Min(call.limit, result.total_matches)

\* three matches of which the limit lets one through
C7_Witness ==
    /\ Searched
    /\ call.limit = 1
    /\ Len(result.results) = 1
    /\ result.total_matches = 3

\* C5 amended: every key resolveLocation returns is the key of a catalog row,
\* with that row's population-group segment: the trimmed input in the
\* direct-key step, 860Z200US + digits (segment Z200) in the ZIP step, the key of
\* a best-ranked match in the name search.  No step filters on the segment.
C5_CatalogKey ==
    (Resolved /\ result.kind = "location") =>
        /\ result.geo_id \in Keys(catalog)
        /\ LET last == queries[Len(queries)]
           IN  /\ (last.q = "by_key" /\ last.params = <<Trim(call.input)>>) =>
                      result.geo_id = Trim(call.input)
               /\ (last.q = "by_key" /\ last.params # <<Trim(call.input)>>) =>
                      /\ GroupOf(result.geo_id) = <<"Z", "2", "0", "0">>
                      /\ SuffixOf(result.geo_id) = Trim(call.input)
               /\ last.q = "by_name" =>
                      result.geo_id \in Keys(BestNameMatches(catalog, Trim(call.input),
                                                             call.summaryLevel))

\* the name search returns the variant of a state although the catalog holds the
\* canonical state under the same display name
C5_Witness ==
    /\ Resolved
    /\ call.input = <<" ", "o", "r", " ">>
    /\ {StateCA, StateCAWhite} \subseteq catalog
    /\ result.geo_id = StateCAWhite.geo_id

Listed == pc = "done" /\ call.op = "listGeographies"

\* the two characters a parent key ends with
LastTwo(s) == IF Len(s) <= 2 THEN s ELSE <<s[Len(s) - 1], s[Len(s)]>>

\* the canonical areas at a level, under a parent when one is given
CanonicalAt(areas, levelCode, parent) ==
    {a \in areas :
        /\ StartsWith(a.geo_id, levelCode)
        /\ GroupOf(a.geo_id) = <<"0", "0", "0", "0">>
        /\ parent # <<>> => StartsWith(SuffixOf(a.geo_id), LastTwo(parent))}

\* C8: every key listGeographies returns starts with the requested level code
\* and has population-group segment 0000, and total_count counts only such
\* canonical areas.
C8_OnlyCanonical ==
    Listed =>
        LET code == result.summary_level
        IN  /\ code = (IF call.summaryLevel = <<"s", "t", "a", "t", "e">> THEN <<"0", "4", "0">> ELSE call.summaryLevel)
            /\ \A i \in 1..Len(result.results) :
                   /\ StartsWith(result.results[i].geo_id, code)
                   /\ GroupOf(result.results[i].geo_id) = <<"0", "0", "0", "0">>
                   /\ result.results[i].geo_id \in Keys(catalog)
            /\ result.total_count =
                   Cardinality(CanonicalAt(catalog, code, call.parentGeoId))

\* the states listed from a catalog that holds a state and its variant: one row
C8_Witness ==
    /\ Listed
    /\ call.summaryLevel = <<"s", "t", "a", "t", "e">>
    /\ {StateCA, StateCAWhite} \subseteq catalog
    /\ Len(result.results) = 1
    /\ result.total_count = 1

LookedUp == pc = "done" /\ call.op = "lookupLocation"

\* block group, tract, ZIP-equivalent, county, metro, state, any other level
Specificity(geoId) ==
    CASE SubSeq(geoId, 1, 3) = <<"1", "5", "0">> -> 1
      [] SubSeq(geoId, 1, 3) = <<"1", "4", "0">> -> 2
      [] SubSeq(geoId, 1, 3) = <<"8", "6", "0">> -> 3
      [] SubSeq(geoId, 1, 3) = <<"0", "5", "0">> -> 4
      [] SubSeq(geoId, 1, 3) = <<"3", "1", "0">> -> 5
      [] SubSeq(geoId, 1, 3) = <<"0", "4", "0">> -> 6
      [] OTHER -> 7

C10_WitnessNull ==
    /\ LookedUp
    /\ catalog # {}
    /\ result = Null
    /\ Len(queries) = 1

(***************************************************************************)
(* getSummaryLevel.                                                         *)
(***************************************************************************)
LevelTaken == pc = "done" /\ call.op = "getSummaryLevel"

\* C12: getSummaryLevel(k) is the first three characters of k, and the whole
\* of k when k has fewer than three; it answers for every string, from k
\* alone: no query is issued and no catalog row is read.
C12_FirstThree ==
    LevelTaken =>
        LET k == call.geoId
            level == result.level
        IN  /\ result.kind = "level"
            /\ queries = <<>>
            /\ Len(level) = IF Len(k) < 3 THEN Len(k) ELSE 3
            /\ \A i \in 1..Len(level) : level[i] = k[i]
            /\ Len(k) < 3 => level = k

\* a state key gives its level code 040
C12_Witness ==
    /\ LevelTaken
    /\ call.geoId = <<"0", "4", "0", "0", "0", "0", "0", "U", "S", "0", "6">>
    /\ result.level = <<"0", "4", "0">>

\* a string of two characters is returned whole
C12_WitnessShort ==
    /\ LevelTaken
    /\ Len(call.geoId) = 2
    /\ result.level = call.geoId

(***************************************************************************)
(* lookupLocation: the data rows attached to the selected area.             *)
(***************************************************************************)
\* the rows stored for a key that belong to the named table groupings
\* (every row when the caller names none)
StoredRows(key, tables) ==
    { g \in GeoLookup :
        /\ g.geo_id = key
        /\ tables # <<>> =>
               \E m \in TableMetadata :
                   m.table_id \in Range(tables) /\ m.title = g.title }

\* result row d shows stored row g
Carries(d, g) ==
    /\ d.title = g.title
    /\ d.universe = g.universe
    /\ d.labels_data.v = g.labels_data.v

FoundArea == LookedUp /\ result.kind = "lookup"

C11_WitnessFilter ==
    /\ FoundArea
    /\ call.tables # <<>>
    /\ Cardinality(StoredRows(result.geo_id, <<>>)) = 2
    /\ Cardinality(result.data) = 1

(***************************************************************************)
(* rankAreasByMetric.                                                       *)
(***************************************************************************)
Ranked == pc = "done" /\ call.op = "rankAreasByMetric"

RankedRows == Ranked /\ result.kind = "ranking"

\* the row queries the call has issued
RowQueriesRun ==
    { queries[i].q : i \in { j \in 1..Len(queries) :
                               queries[j].q \in {"rate_rows", "sum_rows", "direct_rows"} } }

\* the number of ids the request gives as metric and as denominator
MetricCount == Len(call.params.metric_id.ids)
DenominatorCount == Len(call.params.denominator_id.ids)

\* C13: every request runs exactly one branch: the rate branch iff it gives
\* one or several denominator ids, the sum branch iff it gives none and more
\* than one metric id, the direct branch iff it gives none and one metric id;
\* ids given as a string or as a list.
C13_OneBranch ==
    Ranked =>
        /\ Cardinality(RowQueriesRun) = 1
        /\ "rate_rows" \in RowQueriesRun <=> DenominatorCount >= 1
        /\ "sum_rows" \in RowQueriesRun <=> (DenominatorCount = 0 /\ MetricCount > 1)
        /\ "direct_rows" \in RowQueriesRun <=> (DenominatorCount = 0 /\ MetricCount = 1)

\* what holds of requests that give no empty list of denominators
C13_OneBranchOfNonEmpty ==
    (Ranked /\ call.params.denominator_id # IdList(<<>>)) =>
        /\ Cardinality(RowQueriesRun) = 1
        /\ "rate_rows" \in RowQueriesRun <=> DenominatorCount >= 1
        /\ "sum_rows" \in RowQueriesRun <=> (DenominatorCount = 0 /\ MetricCount > 1)
        /\ "direct_rows" \in RowQueriesRun <=> (DenominatorCount = 0 /\ MetricCount = 1)

\* a request with two metrics and an empty list of denominators takes the
\* rate branch and ends with the error of its query
C13_EmptyListTakesRate ==
    /\ Ranked
    /\ call.params.denominator_id = IdList(<<>>)
    /\ MetricCount > 1
    /\ RowQueriesRun = {"rate_rows"}
    /\ result.kind = "error"

\* the rows of the response
ResultRows == {result.results[i] : i \in 1..Len(result.results)}

HasPercentile(row) == "national_percentile" \in DOMAIN row

C14_WitnessRate ==
    RankedRows /\ DenominatorCount >= 1 /\ Len(result.results) = 2

C14_WitnessSum ==
    RankedRows /\ DenominatorCount = 0 /\ MetricCount > 1 /\ Len(result.results) = 2

\* the observations of an area among the numerator and the denominator ids
NumeratorObs(geoId) ==
    {o \in acs : o.geo_id = geoId /\ o.uid \in Range(call.params.metric_id.ids)}
DenominatorObs(geoId) ==
    {o \in acs : o.geo_id = geoId /\ o.uid \in Range(call.params.denominator_id.ids)}

\* min_population of the request, 10000 when it gives none
MinPopulationAsked ==
    IF call.params.min_population.given THEN call.params.min_population.value
    ELSE DefaultMinPopulation

\* value is numeratorSum / denominatorSum * 100 rounded to two decimals, half
\* away from zero; value.n counts hundredths of a percent
IsRoundedRate(value, numeratorSum, denominatorSum) ==
    /\ value.finite
    /\ denominatorSum > 0
    /\ 2 * (value.n * denominatorSum - numeratorSum * 10000) <= denominatorSum
    /\ 2 * (numeratorSum * 10000 - value.n * denominatorSum) < denominatorSum

RateRowSound(row) ==
    /\ NumeratorObs(row.geo_id) # {}
    /\ DenominatorObs(row.geo_id) # {}
    /\ SumEstimate(DenominatorObs(row.geo_id)) >= MinPopulationAsked
    /\ IsRoundedRate(row.value, SumEstimate(NumeratorObs(row.geo_id)),
                     SumEstimate(DenominatorObs(row.geo_id)))

\* C15: in the rate branch a row's area has an observation among the
\* numerator ids and one among the denominator ids, its denominator sum is
\* at least min_population, and its value is defined and is
\* round(numeratorSum / denominatorSum * 100, 2); for every min_population
\* the schema accepts.
C15_RateValue ==
    (RankedRows /\ DenominatorCount >= 1) =>
        \A row \in ResultRows : RateRowSound(row)

\* the same for requests whose min_population is above zero
C15_RateValueAboveZero ==
    (RankedRows /\ DenominatorCount >= 1 /\ MinPopulationAsked > 0) =>
        \A row \in ResultRows : RateRowSound(row)

\* a rate that is rounded up: 13000 of 12003 is 108.31 percent
C15_WitnessRounded ==
    /\ RankedRows /\ DenominatorCount = 2 /\ MetricCount = 2
    /\ \E row \in ResultRows : row.value = Number(10831)

\* min_population 0 lets in the state whose denominator is 0
C15_ZeroDenominatorRow ==
    /\ RankedRows /\ DenominatorCount >= 1
    /\ MinPopulationAsked = 0
    /\ \E row \in ResultRows :
           /\ row.geo_id = StateTXKey
           /\ SumEstimate(DenominatorObs(row.geo_id)) = 0
           /\ ~row.value.finite

\* the rows of the row query of the request with its LIMIT lifted
MatchingRows ==
    LET req == [call.req EXCEPT !.limit = Cardinality(acs)]
        branch == Branch(req.metric_id, req.denominator_id)
        pages == IF branch = "rate" THEN RateRowsQuery(acs, catalog, req, FALSE)
                 ELSE IF branch = "sum" THEN SumRowsQuery(acs, catalog, req)
                 ELSE DirectRowsQuery(acs, catalog, req)
        page == CHOOSE page \in pages : TRUE
    IN  {page[i] : i \in 1..Len(page)}

\* C16: in each branch total_matches is the number of areas that pass the
\* joins and filters of the row query, whatever the limit, and the number of
\* rows returned is min(limit, total_matches).
C16_TotalMatches ==
    RankedRows =>
        /\ result.total_matches = Cardinality(MatchingRows)
        /\ result.total_matches = Cardinality({row.geo_id : row \in MatchingRows})
        /\ Len(result.results) = Min(call.params.limit, result.total_matches)

\* a page shorter than the number of matches
C16_Witness ==
    /\ RankedRows
    /\ call.params.limit > 0
    /\ result.total_matches > call.params.limit
    /\ Len(result.results) = call.params.limit

\* a sum ranking whose key filters leave some areas out
C16_WitnessFiltered ==
    /\ RankedRows
    /\ DenominatorCount = 0 /\ MetricCount > 1
    /\ call.params.state_fips # <<>>
    /\ result.total_matches > 0
    /\ \E o \in acs : /\ o.uid \in Range(call.params.metric_id.ids)
                      /\ o.geo_id \notin {row.geo_id : row \in MatchingRows}

\* the sort key of a row: the national percentile in the direct branch, the
\* value (rate or sum) in the other two
SortKeyOf(row) ==
    IF HasPercentile(row) THEN Number(row.national_percentile) ELSE row.value

\* key a comes no later than key b in the order asked; a key that is no
\* number has no place in an order
NoLater(a, b) ==
    /\ a.finite /\ b.finite
    /\ IF call.params.order = "desc" THEN a.n >= b.n ELSE a.n <= b.n

StrictlyBefore(a, b) ==
    /\ a.finite /\ b.finite
    /\ IF call.params.order = "desc" THEN a.n > b.n ELSE a.n < b.n

\* the response holds matching areas in the order asked, and no matching
\* area left out comes strictly before a returned one
RowsInOrder ==
    LET results == result.results
        returned == {row.geo_id : row \in ResultRows}
    IN  /\ \A i \in 1..Len(results) :
               \E m \in MatchingRows :
                   m.geo_id = results[i].geo_id /\ SortKeyOf(m) = SortKeyOf(results[i])
        /\ \A i, j \in 1..Len(results) : i # j => results[i].geo_id # results[j].geo_id
        /\ \A i \in 1..(Len(results) - 1) :
               NoLater(SortKeyOf(results[i]), SortKeyOf(results[i + 1]))
        /\ \A m \in MatchingRows :
               m.geo_id \notin returned =>
                   \A row \in ResultRows : ~StrictlyBefore(SortKeyOf(m), SortKeyOf(row))

\* C17: the rows are the first limit matching areas in the order asked of
\* the branch's sort key (rate, sum, or national percentile): consecutive rows
\* are non-increasing for desc and non-decreasing for asc, and no matching
\* area left out has a strictly better key than a returned row.
C17_RowsInOrder == RankedRows => RowsInOrder

\* the same for the responses all of whose values are numbers
C17_NumbersInOrder ==
    (RankedRows /\ \A row \in ResultRows : row.value.finite) => RowsInOrder

\* a direct ranking ordered by percentile against the estimates
C17_Witness ==
    /\ RankedRows
    /\ Len(result.results) = 2
    /\ HasPercentile(result.results[1])
    /\ StrictlyBefore(SortKeyOf(result.results[1]), SortKeyOf(result.results[2]))
    /\ StrictlyBefore(result.results[2].value, result.results[1].value)

\* a rate ranking that leaves out a matching area with a worse rate
C17_WitnessRate ==
    /\ RankedRows /\ DenominatorCount >= 1
    /\ Len(result.results) = 2
    /\ \E m \in MatchingRows :
           /\ m.geo_id \notin {row.geo_id : row \in ResultRows}
           /\ StrictlyBefore(result.results[2].value, m.value)

\* a rate ranking that puts a row without a number before a row with one
C17_UndefinedAmongNumbers ==
    /\ RankedRows /\ DenominatorCount >= 1
    /\ Len(result.results) = 2
    /\ ~result.results[1].value.finite
    /\ result.results[2].value.finite

IsDirect == DenominatorCount = 0 /\ MetricCount = 1

\* the observations of the request's metric that pass its filters other
\* than the percentile band: a query on the metric with no percentile filter
UnfilteredMetricRows ==
    { o \in acs :
        /\ o.uid = call.params.metric_id.ids[1]
        /\ PopulationGroupFilter(call.req.population_group, o.geo_id)
        /\ call.params.summary_level # <<>> => o.summary_level = call.params.summary_level
        /\ call.params.state_fips # <<>> => o.state_fips = call.params.state_fips }

\* those of them whose percentile lies in the band, bounds included
InBandRows ==
    { o \in UnfilteredMetricRows :
        /\ call.params.percentile_min <= o.national_percentile
        /\ o.national_percentile <= call.params.percentile_max }

\* C18: the direct branch matches an observation of the metric iff its
\* national percentile p has percentile_min <= p <= percentile_max and it
\* passes the other filters; with the band 0 to 1 the matches are those of
\* a query with no percentile filter.
C18_InclusiveBand ==
    (RankedRows /\ IsDirect) =>
        /\ {m.geo_id : m \in MatchingRows} = {o.geo_id : o \in InBandRows}
        /\ result.total_matches = Cardinality(InBandRows)
        /\ \A row \in ResultRows :
               \E o \in InBandRows :
                   o.geo_id = row.geo_id /\ o.national_percentile = row.national_percentile
        /\ (call.params.percentile_min = 0 /\ call.params.percentile_max = PctScale) =>
               {m.geo_id : m \in MatchingRows} = {o.geo_id : o \in UnfilteredMetricRows}

\* a band of one point above zero matches the observation on it and leaves
\* out the observations beside it
C18_Witness ==
    /\ RankedRows /\ IsDirect
    /\ call.params.percentile_min = call.params.percentile_max
    /\ call.params.percentile_min > 0
    /\ result.total_matches = 1
    /\ Cardinality(UnfilteredMetricRows) = 3

\* the full band matches every observation of the metric
C18_WitnessFullBand ==
    /\ RankedRows /\ IsDirect
    /\ call.params.percentile_min = 0 /\ call.params.percentile_max = PctScale
    /\ result.total_matches = 3

\* population_group of the request, 0000 when it gives none
PopulationGroupAsked ==
    IF call.params.population_group.given THEN call.params.population_group.value
    ELSE DefaultPopulationGroup

OnlyAskedGroup ==
    /\ \A row \in ResultRows : GroupOf(row.geo_id) = PopulationGroupAsked
    /\ \A m \in MatchingRows : GroupOf(m.geo_id) = PopulationGroupAsked
    /\ result.total_matches =
           Cardinality({m \in MatchingRows : GroupOf(m.geo_id) = PopulationGroupAsked})

\* C19: in all three branches every returned row's key has the
\* population-group segment (characters 4 to 7) the request asks for, 0000
\* when it asks for none, and total_matches counts only such keys.
C19_GroupSegment == RankedRows => OnlyAskedGroup

\* the same for requests whose population_group is not the empty string
C19_GroupSegmentOfNonEmpty ==
    (RankedRows /\ PopulationGroupAsked # <<>>) => OnlyAskedGroup

\* a request for the variant group gets the variant key alone
C19_WitnessVariant ==
    /\ RankedRows
    /\ PopulationGroupAsked = <<"0", "0", "A", "0">>
    /\ {row.geo_id : row \in ResultRows} = {StateCAWhite.geo_id}
    /\ result.total_matches = 1

\* population_group '' ranks a state and its variant side by side
C19_MixedGroups ==
    /\ RankedRows
    /\ PopulationGroupAsked = <<>>
    /\ \E a, b \in ResultRows :
           GroupOf(a.geo_id) = <<"0", "0", "0", "0">> /\ GroupOf(b.geo_id) = <<"0", "0", "A", "0">>

\* the keys the row query of the request matches against an empty catalog
KeysMatchedWithoutCatalog ==
    LET req == [call.req EXCEPT !.limit = Cardinality(acs)]
        branch == Branch(req.metric_id, req.denominator_id)
        pages == IF branch = "rate" THEN RateRowsQuery(acs, {}, req, FALSE)
                 ELSE IF branch = "sum" THEN SumRowsQuery(acs, {}, req)
                 ELSE DirectRowsQuery(acs, {}, req)
        page == CHOOSE page \in pages : TRUE
    IN  {page[i].geo_id : i \in 1..Len(page)}

RankingPagesOf(req) ==
    LET branch == Branch(req.metric_id, req.denominator_id)
    IN  IF branch = "rate"
        THEN UNION { { [i \in 1..Len(found) |-> RateResultRow(found[i])]
                       : found \in RateRowsQuery(acs, catalog, req, undefinedFirst) }
                     : undefinedFirst \in BOOLEAN }
        ELSE IF branch = "sum"
        THEN { [i \in 1..Len(found) |-> SumResultRow(found[i])]
               : found \in SumRowsQuery(acs, catalog, req) }
        ELSE { [i \in 1..Len(found) |-> DirectResultRow(found[i])]
               : found \in DirectRowsQuery(acs, catalog, req) }

\* the keys a request matches, its LIMIT lifted
MatchedKeysOf(req) ==
    LET page == CHOOSE page \in RankingPagesOf([req EXCEPT !.limit = Cardinality(acs)]) : TRUE
    IN  {page[i].geo_id : i \in 1..Len(page)}

\* the request without its level and state filters
WithoutLevelAndState == [call.req EXCEPT !.summary_level = <<>>, !.state_fips = <<>>]

\* the key starts with the level asked and holds US followed by the state asked
KeyHasLevelAndState(geoId) ==
    /\ call.params.summary_level # <<>> => StartsWith(geoId, call.params.summary_level)
    /\ call.params.state_fips # <<>> => Includes(geoId, US \o call.params.state_fips)

\* the observation's summary_level and state_fips fields are those asked
FieldsAreLevelAndState(o) ==
    /\ call.params.summary_level # <<>> => o.summary_level = call.params.summary_level
    /\ call.params.state_fips # <<>> => o.state_fips = call.params.state_fips

C26_WitnessDirect ==
    /\ RankedRows /\ IsDirect
    /\ call.params.summary_level = <<"0", "4">>
    /\ result.total_matches = 0
    /\ \E g \in MatchedKeysOf(WithoutLevelAndState) : getSummaryLevel(g) = <<"0", "4", "0">>

\* the state filter 060 keeps the county 06037 in the rate and sum branches
C26_WitnessState ==
    /\ RankedRows /\ ~IsDirect
    /\ call.params.state_fips = <<"0", "6", "0">>
    /\ {row.geo_id : row \in ResultRows} = {CountyCA.geo_id}

IsSum == DenominatorCount = 0 /\ MetricCount > 1

\* C29: in the sum branch and in both aggregates of the rate branch an area's
\* sum runs over the distinct ids of the request: an id listed twice adds its
\* estimate once.
C29_DistinctIds ==
    RankedRows =>
        \A row \in ResultRows :
            LET numeratorSum == SumEstimate(NumeratorObs(row.geo_id))
                denominatorSum == SumEstimate(DenominatorObs(row.geo_id))
            IN  /\ IsSum => row.value = Number(numeratorSum)
                /\ DenominatorCount >= 1 =>
                       /\ denominatorSum >= MinPopulationAsked
                       /\ denominatorSum > 0 =>
                              IsRoundedRate(row.value, numeratorSum, denominatorSum)

\* a rate over a denominator listed twice: 5000 of 20000 is 25.00 percent
C29_Witness ==
    /\ RankedRows
    /\ call.params.denominator_id = IdList(<<"C", "C">>)
    /\ \E row \in ResultRows : row.geo_id = StateCA.geo_id /\ row.value = Number(2500)

\* a sum over a metric listed twice is the metric's estimate
C29_WitnessSum ==
    /\ RankedRows /\ IsSum
    /\ call.params.metric_id = IdList(<<"A", "A">>)
    /\ \E row \in ResultRows : row.geo_id = StateCA.geo_id /\ row.value = Number(5000)

\* the request with the full percentile band
WithFullBand == [call.req EXCEPT !.percentile_min = 0, !.percentile_max = PctScale]

\* C30: in the rate and the sum branch the percentile band has no effect:
\* the rows and total_matches are those of the same request with the full
\* band (rows tied in the sort key in any order).
C30_BandIgnored ==
    (RankedRows /\ ~IsDirect) =>
        /\ result.results \in RankingPagesOf(WithFullBand)
        /\ result.total_matches = Cardinality(MatchedKeysOf(WithFullBand))

\* a sum or rate ranking under an empty band that still has rows
C30_Witness ==
    /\ RankedRows /\ ~IsDirect
    /\ call.params.percentile_min > call.params.percentile_max
    /\ Len(result.results) = 2

\* the same band leaves the direct branch without a match
C30_WitnessDirect ==
    /\ RankedRows /\ IsDirect
    /\ call.params.percentile_min > call.params.percentile_max
    /\ result.total_matches = 0
    /\ MatchedKeysOf(WithFullBand) # {}

(***************************************************************************)
(* The Store Manager: what query returns.                                   *)
(***************************************************************************)
\* a bigint is somewhere in the value, at any depth
RECURSIVE HasBigInt(_)
HasBigInt(v) ==
    \/ v.t = "bigint"
    \/ \E i \in 1..Len(v.items) : HasBigInt(v.items[i])

\* normal is raw with a number in the place of each bigint and everything
\* else as it was: the scalars, the length and order of each array, the keys
\* of each object
RECURSIVE NormalOf(_, _)
NormalOf(raw, normal) ==
    IF raw.t = "bigint" THEN normal = JsNumber(raw.n)
    ELSE /\ normal.t = raw.t
         /\ normal.n = raw.n
         /\ normal.s = raw.s
         /\ normal.keys = raw.keys
         /\ Len(normal.items) = Len(raw.items)
         /\ \A i \in 1..Len(raw.items) : NormalOf(raw.items[i], normal.items[i])

\* the rows query has returned to caller c
Returned(c) == tasks[c].outcome.kind = "rows"

\* C27: a value returned by query holds no bigint at any depth; it is a
\* result of the store with a number for each bigint and nulls, undefined,
\* other scalars, array lengths and order and object keys unchanged; and
\* normalizing it once more changes nothing.
C27_NoBigInt ==
    \A c \in Callers :
        Returned(c) =>
            /\ ~HasBigInt(tasks[c].outcome.value)
            /\ \E raw \in RawResults : NormalOf(raw, tasks[c].outcome.value)
            /\ convertBigInts(tasks[c].outcome.value) = tasks[c].outcome.value

\* query has returned rows that held a bigint inside a nested object and
\* inside an array of it, next to an undefined
C27_Witness ==
    \E c \in Callers :
        /\ Returned(c)
        /\ \E raw \in RawResults :
              /\ NormalOf(raw, tasks[c].outcome.value)
              /\ \E i \in 1..Len(raw.items) : \E j \in 1..Len(raw.items[i].items) :
                    /\ raw.items[i].items[j].t = "object"
                    /\ HasBigInt(raw.items[i].items[j])
                    /\ \E k \in 1..Len(raw.items[i].items[j].items) :
                          raw.items[i].items[j].items[k].t = "undefined"

(***************************************************************************)
(* The Store Manager: the race of the query and the timer.                  *)
(***************************************************************************)
\* caller c waits in Promise.race
Racing(c) == tasks[c].pc = "racing"

\* caller c has been given the outcome of its query call
Delivered(c) == tasks[c].pc = "delivered"

\* in this step the underlying query of c completes
QueryCompletesNow(c) == tasks[c].query = "running" /\ tasks'[c].query = "done"

\* in this step the timer of c fires
TimerFiresNow(c) == tasks[c].timer = "armed" /\ tasks'[c].timer = "fired"

\* C24: query starts the underlying query and the timer in one step; the
\* wait ends at the first of the two events, with the query's rows when the
\* query completes first and with the timeout when the timer fires first;
\* the event that comes second leaves the delivered outcome as it is.
C24_FirstEventDecides ==
    [][\A c \in Callers :
          /\ (~Racing(c) /\ Racing(c)') =>
                (tasks'[c].query = "running" /\ tasks'[c].timer = "armed")
          /\ (Racing(c) /\ QueryCompletesNow(c)) =>
                (Delivered(c)' /\ tasks'[c].outcome.kind = "rows")
          /\ (Racing(c) /\ TimerFiresNow(c)) =>
                (Delivered(c)' /\ tasks'[c].outcome.kind = "timeout")
          /\ (Racing(c) /\ Racing(c)') =>
                (tasks'[c].query = "running" /\ tasks'[c].timer = "armed")
          /\ (Delivered(c) /\ Delivered(c)') =>
                tasks'[c].outcome = tasks[c].outcome]_vars

\* the caller was given the timeout and the query, not cancelled, has
\* completed after it
C24_Witness ==
    \E c \in Callers :
        /\ Delivered(c)
        /\ tasks[c].outcome.kind = "timeout"
        /\ tasks[c].query = "done"

\* the caller was given the rows and the timer has fired after it
C24_WitnessRows ==
    \E c \in Callers :
        /\ Delivered(c)
        /\ tasks[c].outcome.kind = "rows"
        /\ tasks[c].timer = "fired"

(***************************************************************************)
(* The Store Manager: the lazily created handle.                            *)
(***************************************************************************)
\* caller c holds a handle that getDatabase returned to it
Handed(c) == tasks[c].pc \in {"ready", "racing", "delivered"}

\* every statement of getDatabase has taken effect on handle h
Configured(h) == \A k \in 1..Len(ConfigSteps) : ConfigSteps[k] \in Range(handles[h].applied)

\* C25: between the start of the process and closeDatabase the store is
\* created at most once, under every interleaving of getDatabase and query
\* calls, and every query runs on that one handle.
C25_CreatedOnce ==
    /\ Len(handles) <= 1
    /\ \A c \in Callers : Handed(c) => tasks[c].database = 1

\* C28: a handle that getDatabase has returned to a caller, directly or
\* inside query, has both catalogs attached and both extensions loaded.
C28_ConfiguredWhenHanded ==
    \A c \in Callers : Handed(c) => Configured(tasks[c].database)

(***************************************************************************)
(* The tool handler: validation, failures, the ranking request.             *)
(***************************************************************************)
\* the number is missing or outside lo..hi
OutOfRange(arg, lo, hi) == ~arg.given \/ arg.value < lo \/ arg.value > hi

\* the arguments of the tool call are malformed or out of range: a latitude
\* outside -90..90, a longitude outside -180..180, a percentile outside 0..1,
\* an order that is neither asc nor desc, a required field that is missing
Malformed(req) ==
    \/ /\ req.name = "lookup_location"
       /\ \/ OutOfRange(req.args.latitude, -90, 90)
          \/ OutOfRange(req.args.longitude, -180, 180)
    \/ /\ req.name = "search_locations"
       /\ ~req.args.query.given
    \/ /\ req.name = "list_geographies"
       /\ ~req.args.summary_level.given
    \/ /\ req.name = "rank_areas_by_metric"
       /\ \/ req.args.metric_id.kind = "undefined"
          \/ req.args.percentile_min.given /\ OutOfRange(req.args.percentile_min, 0, PctScale)
          \/ req.args.percentile_max.given /\ OutOfRange(req.args.percentile_max, 0, PctScale)
          \/ req.args.order.given /\ req.args.order.value \notin {"asc", "desc"}

\* C21: a tool call with malformed or out-of-range arguments is rejected
\* before any query is issued, and answered with one error message.
C21_RejectedBeforeQuery ==
    (request # NoRequest /\ Malformed(request)) =>
        /\ queries = <<>>
        /\ fetched = <<>>
        /\ result = NoResult
        /\ response = ErrorResponse

\* a lookup with latitude 91 has been answered
C21_Witness ==
    /\ request # NoRequest
    /\ request.name = "lookup_location"
    /\ request.args.latitude = Given(91)
    /\ response = ErrorResponse

\* a ranking with a percentile above 1 has been answered
C21_WitnessPercentile ==
    /\ request # NoRequest
    /\ request.name = "rank_areas_by_metric"
    /\ request.args.percentile_max = Given(PctScale + 1)
    /\ request.args.metric_id = OneId("A")
    /\ request.args.percentile_min = OmittedNumber
    /\ response = ErrorResponse

\* a search without its query has been answered
C21_WitnessMissing ==
    /\ request # NoRequest
    /\ request.name = "search_locations"
    /\ ~request.args.query.given
    /\ response = ErrorResponse

\* the handler has passed a request to rankAreasByMetric
Passed == call.op = "rankAreasByMetric"

\* C22: a ranking request passed to rankAreasByMetric has percentile_min <=
\* percentile_max, both within 0..1, and a non-empty list of metric ids.
C22_RankingRequestInvariant ==
    Passed =>
        /\ call.req.percentile_min <= call.req.percentile_max
        /\ 0 <= call.req.percentile_min
        /\ call.req.percentile_max <= PctScale
        /\ MetricIds(call.req.metric_id) # <<>>

\* what the schema does ensure: each percentile within 0..1
C22_EachPercentileInRange ==
    Passed =>
        /\ 0 <= call.req.percentile_min /\ call.req.percentile_min <= PctScale
        /\ 0 <= call.req.percentile_max /\ call.req.percentile_max <= PctScale

\* a passed request with percentile_min above percentile_max
C22_WitnessBand == Passed /\ call.req.percentile_min > call.req.percentile_max

\* a passed request with no metric id
C22_WitnessNoId == Passed /\ MetricIds(call.req.metric_id) = <<>>

\* a query of the tool call has failed or timed out
Failed == result.kind = "error"

\* C23: once a query of a tool call has failed or timed out the call issues
\* no further query, and its response is the error message alone, without
\* result rows, also when the rows of a ranking had been fetched already.
C23_NoQueryAfterFailure ==
    [][/\ Failed => (queries' = queries \/ queries' = <<>>)
       /\ (Failed /\ ~Failed') => pc' = "idle"
       /\ (Failed' /\ response' # NoResponse) => response' = ErrorResponse
       /\ response' = ErrorResponse => response'.body = NoResult]_vars

\* the rows of a ranking were fetched, the count query failed, and the
\* response is the error
C23_Witness ==
    /\ Passed
    /\ Failed
    /\ response = ErrorResponse
    /\ Len(queries) = 3
    /\ queries[3] = Query("failed", <<"rank_count">>)
    /\ Len(fetched.results) > 0

====
